---- MODULE Spec2Model ----
(***************************************************************************)
(* PhotoText document model (phototext.ts): the flat PhotoDocument, the    *)
(* hierarchical DocumentPart tree, and the conversion between the two.     *)
(*                                                                         *)
(* Objects live in a heap: a DocumentPart is an index into the sequence    *)
(* `heap`, so that `parent` and `subParts` are references as in the        *)
(* source and sharing or cycles made through the API stay expressible.     *)
(***************************************************************************)
EXTENDS Integers, Sequences, FiniteSets, TLC

VARIABLES photoDoc, heap, hierDoc, result, data, now, pc, err

vars == <<photoDoc, heap, hierDoc, result, data, now, pc, err>>

(***************************************************************************)
(* Bounds of the model.                                                    *)
(***************************************************************************)
MaxBlocks == 3
MaxClock == 1
MaxTreeSize == 4
MaxChain == 6
MaxApiParts == 3
MaxApiCalls == 3
MaxJsonBlocks == 2
MaxJsonParts == 2
MaxQueryTree == 5
MaxTextLen == 3
MaxRise == 6
MaxScanExtra == 2
MaxRoundGrow == 1
MaxRoundContent == 1

(***************************************************************************)
(* Program constants.                                                      *)
(***************************************************************************)
MinHeadingLevel == 1
TestDepth == 10
MaxHeadingLevel == 6
NoParent == 0
PhantomRoot == -1
Diverges == 0

Min(a, b) == IF a < b THEN a ELSE b

(***************************************************************************)
(* Inline and block elements.                                              *)
(***************************************************************************)
InlineSpan(text) == [text |-> text, style |-> "text"]

HeadingBlock(level, content) == [type |-> "heading", level |-> level, content |-> content]

ParagraphBlock(content) == [type |-> "paragraph", content |-> content]

ListBlock(items) == [type |-> "list", items |-> items]

\* An optional argument that is left out.
Undefined == "undefined"

ImageBlock(imageId, caption, alt) ==
    [type |-> "image", imageId |-> imageId, caption |-> caption, alt |-> alt]

IsHeading(block) == block.type = "heading"

\* The values the driver passes in.
HeadingTexts == {"A", "B"}

HeadingLevels == MinHeadingLevel..MaxHeadingLevel

HeadingInputs == {HeadingBlock(l, <<InlineSpan(t)>>) : l \in HeadingLevels, t \in HeadingTexts}

ContentInputs ==
    { ParagraphBlock(<<InlineSpan("p")>>),
      ListBlock(<< <<InlineSpan("l")>> >>),
      ImageBlock("imgA", Undefined, Undefined),
      ImageBlock("imgB", Undefined, Undefined) }

BlockInputs == HeadingInputs \cup ContentInputs

(***************************************************************************)
(* PhotoDocument.                                                          *)
(***************************************************************************)
PhotoDocument(title, description, metadata, t) ==
    [title |-> title, description |-> description, metadata |-> metadata,
     created |-> t, modified |-> t, blocks |-> <<>>]

addBlock(doc, block, t) ==
    [doc EXCEPT !.blocks = Append(@, block), !.modified = t]

(***************************************************************************)
(* DocumentPart.                                                           *)
(***************************************************************************)
DocumentPart(heading) ==
    [heading |-> heading, content |-> <<>>, subParts |-> <<>>, parent |-> NoParent]

\* levelWalk without the cap at 6.
RECURSIVE levelWalkNoClamp(_, _, _, _)
levelWalkNoClamp(h, p, lvl, fuel) ==
    IF p = NoParent THEN lvl
    ELSE IF fuel = 0 THEN Diverges
    ELSE levelWalkNoClamp(h, h[p].parent, lvl + 1, fuel - 1)

\* get level(): walks the parent chain.  The walk is cut after Len(h) steps:
\* a chain that long revisits a part, and the source's loop never returns.
RECURSIVE levelWalk(_, _, _, _)
levelWalk(h, p, lvl, fuel) ==
    IF p = NoParent THEN Min(lvl, MaxHeadingLevel)
    ELSE IF fuel = 0 THEN Diverges
    ELSE levelWalk(h, h[p].parent, lvl + 1, fuel - 1)

\* level counted from 0.
levelFromZero(h, id) == levelWalk(h, h[id].parent, 0, Len(h))

\* level that counts the first parent twice.
levelSkewed(h, id) ==
    levelWalk(h, h[id].parent, IF h[id].parent = NoParent THEN 1 ELSE 2, Len(h))

level(h, id) == levelWalk(h, h[id].parent, 1, Len(h))

HeadingsNotAllowed == "Headings not allowed in content. Use addSubPart() to create nested sections."

\* addContent that puts the block first.
addContentPrepend(h, id, block) ==
    IF IsHeading(block)
    THEN [heap |-> h, err |-> HeadingsNotAllowed]
    ELSE [heap |-> [h EXCEPT ![id].content = <<block>> \o @], err |-> ""]

\* addContent without the heading check.
addContentUnchecked(h, id, block) ==
    [heap |-> [h EXCEPT ![id].content = Append(@, block)], err |-> ""]

\* addContent: the heap after the call and the error thrown ("" for none).
addContent(h, id, block) ==
    IF IsHeading(block)
    THEN [heap |-> h, err |-> HeadingsNotAllowed]
    ELSE [heap |-> [h EXCEPT ![id].content = Append(@, block)], err |-> ""]

\* addSubPart that forgets the sub-parts added before.
addSubPartReplace(h, id, part) ==
    [h EXCEPT ![part].parent = id, ![id].subParts = <<part>>]

addSubPart(h, id, part) ==
    [h EXCEPT ![part].parent = id, ![id].subParts = Append(@, part)]

RECURSIVE toFlatBlocks(_, _)
RECURSIVE flattenAll(_, _)
\* toFlatBlocks that walks the sub-parts before the part's own content.
toFlatBlocksSubsFirst(h, id) ==
    <<HeadingBlock(level(h, id), h[id].heading)>> \o flattenAll(h, h[id].subParts) \o h[id].content

toFlatBlocks(h, id) ==
    <<HeadingBlock(level(h, id), h[id].heading)>> \o h[id].content \o flattenAll(h, h[id].subParts)

\* The loops over the parts, left after the first part.
flattenAllFirstOnly(h, ids) ==
    IF ids = <<>> THEN <<>> ELSE toFlatBlocks(h, Head(ids))

\* The loops `for (const sub of ...) blocks.push(...sub.toFlatBlocks())`.
flattenAll(h, ids) ==
    IF ids = <<>> THEN <<>>
    ELSE toFlatBlocks(h, Head(ids)) \o flattenAll(h, Tail(ids))

(***************************************************************************)
(* HierarchicalDocument.                                                   *)
(***************************************************************************)
HierarchicalDocument(title, description, metadata, t) ==
    [title |-> title, description |-> description, metadata |-> metadata,
     created |-> t, modified |-> t, parts |-> <<>>]

\* addPart that leaves the modified date alone.
addPartNoStamp(doc, part, t) == [doc EXCEPT !.parts = Append(@, part)]

addPart(doc, part, t) ==
    [doc EXCEPT !.parts = Append(@, part), !.modified = t]

\* toPhotoDocument that keeps the dates the PhotoDocument constructor set,
\* which are those of one clock reading.
toPhotoDocumentOneDate(doc, h) ==
    [title |-> doc.title, description |-> doc.description, metadata |-> doc.metadata,
     created |-> doc.modified, modified |-> doc.modified,
     blocks |-> flattenAll(h, doc.parts)]

toPhotoDocument(doc, h) ==
    [title |-> doc.title, description |-> doc.description, metadata |-> doc.metadata,
     created |-> doc.created, modified |-> doc.modified,
     blocks |-> flattenAll(h, doc.parts)]

\* popStack that pops nothing.
popStackNever(stack, targetLevel) == stack

\* popStack with > for >=.
RECURSIVE popStackGt(_, _)
popStackGt(stack, targetLevel) ==
    IF Len(stack) > 1 /\ stack[Len(stack)].level > targetLevel
    THEN popStackGt(SubSeq(stack, 1, Len(stack) - 1), targetLevel)
    ELSE stack

\* popStack with `if` for `while`.
popStackOnce(stack, targetLevel) ==
    IF Len(stack) > 1 /\ stack[Len(stack)].level >= targetLevel
    THEN SubSeq(stack, 1, Len(stack) - 1)
    ELSE stack

\* The `while (stack.length > 1 && top.level >= targetLevel) stack.pop()` loop.
RECURSIVE popStack(_, _)
popStack(stack, targetLevel) ==
    IF Len(stack) > 1 /\ stack[Len(stack)].level >= targetLevel
    THEN popStack(SubSeq(stack, 1, Len(stack) - 1), targetLevel)
    ELSE stack

Untitled == <<InlineSpan("(Untitled)")>>

\* scanBlock that forgets to push the implicit part.
scanBlockNoPush(st, block, t) ==
    IF IsHeading(block)
    THEN LET targetLevel == block.level
             stack == popStack(st.stack, targetLevel)
             newPart == Len(st.heap) + 1
             h == Append(st.heap, DocumentPart(block.content))
             parent == stack[Len(stack)].part
         IN  IF parent = st.stack[1].part
             THEN [doc |-> addPart(st.doc, newPart, t), heap |-> h,
                   stack |-> Append(stack, [part |-> newPart, level |-> targetLevel])]
             ELSE [doc |-> st.doc, heap |-> addSubPart(h, parent, newPart),
                   stack |-> Append(stack, [part |-> newPart, level |-> targetLevel])]
    ELSE IF Len(st.stack) = 1
         THEN LET implicitPart == Len(st.heap) + 1
                  h == Append(st.heap, DocumentPart(Untitled))
              IN  [doc |-> addPart(st.doc, implicitPart, t),
                   heap |-> addContent(h, implicitPart, block).heap,
                   stack |-> st.stack]
         ELSE [doc |-> st.doc,
               heap |-> addContent(st.heap, st.stack[Len(st.stack)].part, block).heap,
               stack |-> st.stack]

\* One iteration of the scan of fromPhotoDocument.  st holds the document
\* under construction, the heap of the parts made so far, and the stack.
scanBlock(st, block, t) ==
    IF IsHeading(block)
    THEN LET targetLevel == block.level
             stack == popStack(st.stack, targetLevel)
             newPart == Len(st.heap) + 1
             h == Append(st.heap, DocumentPart(block.content))
             parent == stack[Len(stack)].part
         IN  IF parent = st.stack[1].part
             THEN [doc |-> addPart(st.doc, newPart, t), heap |-> h,
                   stack |-> Append(stack, [part |-> newPart, level |-> targetLevel])]
             ELSE [doc |-> st.doc, heap |-> addSubPart(h, parent, newPart),
                   stack |-> Append(stack, [part |-> newPart, level |-> targetLevel])]
    ELSE IF Len(st.stack) = 1
         THEN LET implicitPart == Len(st.heap) + 1
                  h == Append(st.heap, DocumentPart(Untitled))
              IN  [doc |-> addPart(st.doc, implicitPart, t),
                   heap |-> addContent(h, implicitPart, block).heap,
                   stack |-> Append(st.stack, [part |-> implicitPart, level |-> 1])]
         ELSE [doc |-> st.doc,
               heap |-> addContent(st.heap, st.stack[Len(st.stack)].part, block).heap,
               stack |-> st.stack]

RECURSIVE scanBlocks(_, _, _)
scanBlocks(st, blocks, t) ==
    IF blocks = <<>> THEN st
    ELSE scanBlocks(scanBlock(st, Head(blocks), t), Tail(blocks), t)

\* fromPhotoDocument: the scan state at the return (doc, heap, stack).
\* t is the clock reading of the addPart calls.
fromPhotoDocument(doc, t) ==
    LET hierDoc0 == [HierarchicalDocument(doc.title, doc.description, doc.metadata, t)
                        EXCEPT !.created = doc.created, !.modified = doc.modified]
    IN  IF Len(doc.blocks) = 0
        THEN [doc |-> hierDoc0, heap |-> <<>>, stack |-> <<>>]
        ELSE scanBlocks([doc |-> hierDoc0, heap |-> <<>>,
                         stack |-> <<[part |-> PhantomRoot, level |-> 0]>>],
                        doc.blocks, t)

(***************************************************************************)
(* Image references and the table of contents.                             *)
(***************************************************************************)
\* The loop `for (const block of blocks) if (block instanceof ImageBlock)
\* imageIds.push(block.imageId)`.
RECURSIVE imageIdsOf(_)
imageIdsOf(blocks) ==
    IF blocks = <<>> THEN <<>>
    ELSE (IF Head(blocks).type = "image" THEN <<Head(blocks).imageId>> ELSE <<>>)
         \o imageIdsOf(Tail(blocks))

PhotoDocument_getImageIds(doc) == imageIdsOf(doc.blocks)

RECURSIVE DocumentPart_getImageIds(_, _)
RECURSIVE partsImageIds(_, _)
\* getImageIds that collects the sub-parts' images before the part's own.
DocumentPart_getImageIdsSubsFirst(h, id) ==
    partsImageIds(h, h[id].subParts) \o imageIdsOf(h[id].content)

DocumentPart_getImageIds(h, id) ==
    imageIdsOf(h[id].content) \o partsImageIds(h, h[id].subParts)

\* The loops `for (const sub of ...) imageIds.push(...sub.getImageIds())`.
partsImageIds(h, ids) ==
    IF ids = <<>> THEN <<>>
    ELSE DocumentPart_getImageIds(h, Head(ids)) \o partsImageIds(h, Tail(ids))

HierarchicalDocument_getImageIds(doc, h) == partsImageIds(h, doc.parts)

\* The loop of validateImageIds that stops at the first missing id.
missingIdsFirstOnly(imageIds, validIds) ==
    IF \E i \in 1..Len(imageIds) : imageIds[i] \notin validIds
    THEN <<imageIds[CHOOSE i \in 1..Len(imageIds) :
                       /\ imageIds[i] \notin validIds
                       /\ \A j \in 1..(i - 1) : imageIds[j] \in validIds]>>
    ELSE <<>>

\* The loop `for (const imageId of imageIds) if (!validIds.has(imageId))
\* missingIds.push(imageId)`.
RECURSIVE missingIds(_, _)
missingIds(imageIds, validIds) ==
    IF imageIds = <<>> THEN <<>>
    ELSE (IF Head(imageIds) \notin validIds THEN <<Head(imageIds)>> ELSE <<>>)
         \o missingIds(Tail(imageIds), validIds)

PhotoDocument_validateImageIds(doc, validIds) ==
    missingIds(PhotoDocument_getImageIds(doc), validIds)

HierarchicalDocument_validateImageIds(doc, h, validIds) ==
    missingIds(HierarchicalDocument_getImageIds(doc, h), validIds)

\* spans.map(span => span.getText()).join('')
RECURSIVE joinText(_)
joinText(spans) == IF spans = <<>> THEN "" ELSE Head(spans).text \o joinText(Tail(spans))

getHeadingText(h, id) == joinText(h[id].heading)

RECURSIVE traverse(_, _)
RECURSIVE traverseAll(_, _)
\* traverse that lists a part after the parts below it.
traversePostOrder(h, id) ==
    traverseAll(h, h[id].subParts)
    \o <<[title |-> getHeadingText(h, id), level |-> level(h, id), part |-> id]>>

\* The closure `traverse` of generateTOC.
traverse(h, id) ==
    <<[title |-> getHeadingText(h, id), level |-> level(h, id), part |-> id]>>
    \o traverseAll(h, h[id].subParts)

traverseAll(h, ids) ==
    IF ids = <<>> THEN <<>> ELSE traverse(h, Head(ids)) \o traverseAll(h, Tail(ids))

generateTOC(doc, h) == traverseAll(h, doc.parts)

(***************************************************************************)
(* JSON serialization.  A JSON value is a record of plain data; a string   *)
(* that the code tests for truth (created, modified) is the sequence of    *)
(* its characters, the empty sequence standing for '' and for a property   *)
(* that is missing: both are falsy.                                        *)
(***************************************************************************)
\* new InlineSpan(text, style): style defaults to InlineType.TEXT.
InlineSpanStyled(text, style) ==
    [text |-> text, style |-> IF style = Undefined THEN "text" ELSE style]

InlineSpan_toJSON(span) == [text |-> span.text, style |-> span.style]

InlineSpan_fromJSON(d) == InlineSpanStyled(d.text, d.style)

\* content.map(span => span.toJSON()) and content.map(s => InlineSpan.fromJSON(s)).
spansToJSON(spans) == [i \in 1..Len(spans) |-> InlineSpan_toJSON(spans[i])]

spansFromJSON(ds) == [i \in 1..Len(ds) |-> InlineSpan_fromJSON(ds[i])]

\* The value of a call that threw.
NoBlock == [type |-> "none"]

HeadingLevelMessage(lvl) == "Heading level must be 1-6, got " \o ToString(lvl)

\* The constructor with a level check that lets level 0 and level 7 pass.
HeadingBlock_constructorLoose(lvl, content) ==
    IF lvl < MinHeadingLevel - 1 \/ lvl > MaxHeadingLevel + 1
    THEN [block |-> NoBlock, err |-> HeadingLevelMessage(lvl)]
    ELSE [block |-> HeadingBlock(lvl, content), err |-> ""]

\* new HeadingBlock(level, content): the block made, or the error thrown.
HeadingBlock_constructor(lvl, content) ==
    IF lvl < MinHeadingLevel \/ lvl > MaxHeadingLevel
    THEN [block |-> NoBlock, err |-> HeadingLevelMessage(lvl)]
    ELSE [block |-> HeadingBlock(lvl, content), err |-> ""]

HeadingBlock_toJSON(block) ==
    [type |-> "heading", level |-> block.level, content |-> spansToJSON(block.content)]

HeadingBlock_fromJSON(d) == HeadingBlock_constructor(d.level, spansFromJSON(d.content))

ParagraphBlock_toJSON(block) == [type |-> "paragraph", content |-> spansToJSON(block.content)]

ParagraphBlock_fromJSON(d) == ParagraphBlock(spansFromJSON(d.content))

ListBlock_toJSON(block) ==
    [type |-> "list", items |-> [i \in 1..Len(block.items) |-> spansToJSON(block.items[i])]]

ListBlock_fromJSON(d) == ListBlock([i \in 1..Len(d.items) |-> spansFromJSON(d.items[i])])

ImageBlock_toJSON(block) ==
    [type |-> "image", imageId |-> block.imageId, caption |-> block.caption, alt |-> block.alt]

\* ImageBlock.fromJSON that forgets the alt text.
ImageBlock_fromJSONNoAlt(d) == ImageBlock(d.imageId, d.caption, Undefined)

ImageBlock_fromJSON(d) == ImageBlock(d.imageId, d.caption, d.alt)

\* block.toJSON(), dispatched on the block's class.
Block_toJSON(block) ==
    CASE block.type = "heading" -> HeadingBlock_toJSON(block)
      [] block.type = "paragraph" -> ParagraphBlock_toJSON(block)
      [] block.type = "list" -> ListBlock_toJSON(block)
      [] block.type = "image" -> ImageBlock_toJSON(block)

blocksToJSON(blocks) == [i \in 1..Len(blocks) |-> Block_toJSON(blocks[i])]

\* Date.toISOString() and new Date(isoString), for the dates of the first
\* second: 1970-01-01T00:00:00.mmmZ.
toISOString(t) == <<"1970-01-01T00:00:00.", (t \div 100) % 10, (t \div 10) % 10, t % 10, "Z">>

parseDate(s) == s[2] * 100 + s[3] * 10 + s[4]

Version == "1.0"

EmptyMetadata == "{}"

PhotoDocument_toJSON(doc) ==
    [version |-> Version, title |-> doc.title, description |-> doc.description,
     created |-> toISOString(doc.created), modified |-> toISOString(doc.modified),
     metadata |-> doc.metadata, blocks |-> blocksToJSON(doc.blocks)]

UnknownBlockType(type) == "Unknown block type: " \o type

\* The switch of PhotoDocument.fromJSON: the block made, or the error thrown.
blockFromJSON(d) ==
    CASE d.type = "heading" -> HeadingBlock_fromJSON(d)
      [] d.type = "paragraph" -> [block |-> ParagraphBlock_fromJSON(d), err |-> ""]
      [] d.type = "list" -> [block |-> ListBlock_fromJSON(d), err |-> ""]
      [] d.type = "image" -> [block |-> ImageBlock_fromJSON(d), err |-> ""]
      [] OTHER -> [block |-> NoBlock, err |-> UnknownBlockType(d.type)]

\* data.blocks.map(...): the first entry that throws ends the map.
RECURSIVE blocksFromJSON(_)
blocksFromJSON(ds) ==
    IF ds = <<>> THEN [blocks |-> <<>>, err |-> ""]
    ELSE LET r == blockFromJSON(Head(ds))
         IN  IF r.err # "" THEN [blocks |-> <<>>, err |-> r.err]
             ELSE LET rest == blocksFromJSON(Tail(ds))
                  IN  IF rest.err # "" THEN rest
                      ELSE [blocks |-> <<r.block>> \o rest.blocks, err |-> ""]

\* PhotoDocument.fromJSON: the document returned, or the error thrown.
\* t is the clock reading of the constructor and of the `new Date()` defaults.
PhotoDocument_fromJSON(d, t) ==
    LET doc0 == PhotoDocument(d.title, d.description,
                              IF d.metadata = Undefined THEN EmptyMetadata ELSE d.metadata, t)
        doc1 == [doc0 EXCEPT !.created = IF d.created # <<>> THEN parseDate(d.created) ELSE t,
                             !.modified = IF d.modified # <<>> THEN parseDate(d.modified) ELSE t]
        r == blocksFromJSON(d.blocks)
    IN  IF r.err # "" THEN [doc |-> doc1, err |-> r.err]
        ELSE [doc |-> [doc1 EXCEPT !.blocks = r.blocks], err |-> ""]

RECURSIVE DocumentPart_toJSON(_, _)
DocumentPart_toJSON(h, id) ==
    [heading |-> spansToJSON(h[id].heading),
     content |-> blocksToJSON(h[id].content),
     subParts |-> [i \in 1..Len(h[id].subParts) |-> DocumentPart_toJSON(h, h[id].subParts[i])]]

HierarchicalDocument_toJSON(doc, h) ==
    [version |-> Version, title |-> doc.title, description |-> doc.description,
     created |-> toISOString(doc.created), modified |-> toISOString(doc.modified),
     metadata |-> doc.metadata,
     parts |-> [i \in 1..Len(doc.parts) |-> DocumentPart_toJSON(h, doc.parts[i])]]

HeadingsNotAllowedInPart(type) == "Headings not allowed in DocumentPart content: " \o type

\* The switch of DocumentPart.fromJSON that takes a heading entry for a
\* paragraph.
contentFromJSONLenient(d) ==
    CASE d.type = "paragraph" -> [block |-> ParagraphBlock_fromJSON(d), err |-> ""]
      [] d.type = "heading" -> [block |-> HeadingBlock(d.level, spansFromJSON(d.content)), err |-> ""]
      [] d.type = "list" -> [block |-> ListBlock_fromJSON(d), err |-> ""]
      [] d.type = "image" -> [block |-> ImageBlock_fromJSON(d), err |-> ""]
      [] OTHER -> [block |-> NoBlock, err |-> HeadingsNotAllowedInPart(d.type)]

\* The switch of DocumentPart.fromJSON: the block made, or the error thrown.
contentFromJSON(d) ==
    CASE d.type = "paragraph" -> [block |-> ParagraphBlock_fromJSON(d), err |-> ""]
      [] d.type = "list" -> [block |-> ListBlock_fromJSON(d), err |-> ""]
      [] d.type = "image" -> [block |-> ImageBlock_fromJSON(d), err |-> ""]
      [] OTHER -> [block |-> NoBlock, err |-> HeadingsNotAllowedInPart(d.type)]

\* The content loop of DocumentPart.fromJSON on part id.
RECURSIVE contentLoop(_, _, _)
contentLoop(h, id, ds) ==
    IF ds = <<>> THEN [heap |-> h, err |-> ""]
    ELSE LET r == contentFromJSON(Head(ds))
         IN  IF r.err # "" THEN [heap |-> h, err |-> r.err]
             ELSE contentLoop([h EXCEPT ![id].content = Append(@, r.block)], id, Tail(ds))

\* DocumentPart.fromJSON: the heap with the parts made, the part returned,
\* or the error thrown.  subPartsLoop is its loop over data.subParts.
RECURSIVE DocumentPart_fromJSON(_, _)
RECURSIVE subPartsLoop(_, _, _)
DocumentPart_fromJSON(h, d) ==
    LET part == Len(h) + 1
        c == contentLoop(Append(h, DocumentPart(spansFromJSON(d.heading))), part, d.content)
    IN  IF c.err # "" THEN [heap |-> c.heap, part |-> part, err |-> c.err]
        ELSE LET s == subPartsLoop(c.heap, part, d.subParts)
             IN  [heap |-> s.heap, part |-> part, err |-> s.err]

\* subPartsLoop that leaves out a sub-part that cannot be deserialized.
subPartsLoopSkip(h, id, ds) ==
    IF ds = <<>> THEN [heap |-> h, err |-> ""]
    ELSE LET r == DocumentPart_fromJSON(h, Head(ds))
         IN  IF r.err # "" THEN subPartsLoop(h, id, Tail(ds))
             ELSE subPartsLoop(addSubPart(r.heap, id, r.part), id, Tail(ds))

subPartsLoop(h, id, ds) ==
    IF ds = <<>> THEN [heap |-> h, err |-> ""]
    ELSE LET r == DocumentPart_fromJSON(h, Head(ds))
         IN  IF r.err # "" THEN [heap |-> r.heap, err |-> r.err]
             ELSE subPartsLoop(addSubPart(r.heap, id, r.part), id, Tail(ds))

\* data.parts.map(partData => DocumentPart.fromJSON(partData)).
RECURSIVE partsFromJSON(_, _)
partsFromJSON(h, ds) ==
    IF ds = <<>> THEN [heap |-> h, parts |-> <<>>, err |-> ""]
    ELSE LET r == DocumentPart_fromJSON(h, Head(ds))
         IN  IF r.err # "" THEN [heap |-> r.heap, parts |-> <<>>, err |-> r.err]
             ELSE LET rest == partsFromJSON(r.heap, Tail(ds))
                  IN  [heap |-> rest.heap, parts |-> <<r.part>> \o rest.parts, err |-> rest.err]

\* HierarchicalDocument.fromJSON: the document returned and the heap with
\* its parts, or the error thrown.
HierarchicalDocument_fromJSON(h, d, t) ==
    LET doc0 == HierarchicalDocument(d.title, d.description,
                                     IF d.metadata = Undefined THEN EmptyMetadata ELSE d.metadata, t)
        doc1 == [doc0 EXCEPT !.created = IF d.created # <<>> THEN parseDate(d.created) ELSE t,
                             !.modified = IF d.modified # <<>> THEN parseDate(d.modified) ELSE t]
        r == partsFromJSON(h, d.parts)
    IN  IF r.err # "" THEN [doc |-> doc1, heap |-> r.heap, err |-> r.err]
        ELSE [doc |-> [doc1 EXCEPT !.parts = r.parts], heap |-> r.heap, err |-> ""]

(***************************************************************************)
(* HTML rendering of an inline span.  A text is the sequence of its        *)
(* pieces: each piece is one of the characters & < > " or a run of other   *)
(* characters; the output is such a sequence too, with a tag written as    *)
(* its three pieces <, name, >.                                            *)
(***************************************************************************)
\* text.replace(/c/g, r): every piece c gives way to the pieces r.
RECURSIVE replaceAll(_, _, _)
replaceAll(text, c, r) ==
    IF text = <<>> THEN <<>>
    ELSE (IF Head(text) = c THEN r ELSE <<Head(text)>>) \o replaceAll(Tail(text), c, r)

AmpEntity == <<"&", "amp", ";">>

LtEntity == <<"&", "lt", ";">>

GtEntity == <<"&", "gt", ";">>

QuotEntity == <<"&", "quot", ";">>

Tag(name) == <<"<", name, ">">>

\* toHTML that escapes '&' after the others.
InlineSpan_toHTMLAmpLast(span) ==
    LET escapedText ==
            replaceAll(replaceAll(replaceAll(replaceAll(span.text,
                "<", LtEntity), ">", GtEntity), "\"", QuotEntity), "&", AmpEntity)
    IN  CASE span.style = "bold" -> Tag("strong") \o escapedText \o Tag("/strong")
          [] span.style = "italic" -> Tag("em") \o escapedText \o Tag("/em")
          [] span.style = "bold_italic" ->
                Tag("strong") \o Tag("em") \o escapedText \o Tag("/em") \o Tag("/strong")
          [] OTHER -> escapedText

InlineSpan_toHTML(span) ==
    LET escapedText ==
            replaceAll(replaceAll(replaceAll(replaceAll(span.text,
                "&", AmpEntity), "<", LtEntity), ">", GtEntity), "\"", QuotEntity)
    IN  CASE span.style = "bold" -> Tag("strong") \o escapedText \o Tag("/strong")
          [] span.style = "italic" -> Tag("em") \o escapedText \o Tag("/em")
          [] span.style = "bold_italic" ->
                Tag("strong") \o Tag("em") \o escapedText \o Tag("/em") \o Tag("/strong")
          [] OTHER -> escapedText

(***************************************************************************)
(* The clock: new Date() never goes back, and may or may not have moved    *)
(* since the last reading.                                                 *)
(***************************************************************************)
ClockReadings == {t \in {now, now + 1} : t <= MaxClock}

NoDocument == PhotoDocument("", "", "", 0)

\* No JSON value at hand.
NoData == [version |-> ""]

(***************************************************************************)
(* Spec: a flat document is written block by block, converted to a         *)
(* hierarchical document and flattened back.                               *)
(***************************************************************************)
Init ==
    /\ now = 0
    /\ photoDoc = PhotoDocument("T", "D", "M", 0)
    /\ heap = <<>>
    /\ hierDoc = HierarchicalDocument("", "", "", 0)
    /\ result = NoDocument
    /\ data = NoData
    /\ pc = "edit"
    /\ err = ""

AddBlock(block) ==
    /\ pc = "edit"
    /\ Len(photoDoc.blocks) < MaxBlocks
    /\ \E t \in ClockReadings :
          /\ now' = t
          /\ photoDoc' = addBlock(photoDoc, block, t)
    /\ UNCHANGED <<heap, hierDoc, result, pc, err, data>>

FromPhotoDocument ==
    /\ pc = "edit"
    /\ \E t \in ClockReadings :
          LET r == fromPhotoDocument(photoDoc, t)
          IN  /\ now' = t
              /\ hierDoc' = r.doc
              /\ heap' = r.heap
    /\ pc' = "hier"
    /\ UNCHANGED <<photoDoc, result, err, data>>

ToPhotoDocument ==
    /\ pc \in {"hier", "tree"}
    /\ result' = toPhotoDocument(hierDoc, heap)
    /\ pc' = "flat"
    /\ UNCHANGED <<photoDoc, heap, hierDoc, now, err, data>>

Next ==
    \/ \E block \in BlockInputs : AddBlock(block)
    \/ FromPhotoDocument
    \/ ToPhotoDocument

Spec == Init /\ [][Next]_vars

(***************************************************************************)
(* The API calls on the part tree.                                         *)
(***************************************************************************)
Parts == 1..Len(heap)

Range(s) == {s[i] : i \in 1..Len(s)}

RECURSIVE SumContent(_, _)
SumContent(h, n) == IF n = 0 THEN 0 ELSE Len(h[n].content) + SumContent(h, n - 1)

RECURSIVE rootOf(_, _)
rootOf(h, id) == IF h[id].parent = NoParent THEN id ELSE rootOf(h, h[id].parent)

\* part is attached nowhere yet.
Detached(part) == heap[part].parent = NoParent /\ part \notin Range(hierDoc.parts)

NewPart(text) ==
    /\ pc \in {"tree", "api"}
    /\ heap' = Append(heap, DocumentPart(<<InlineSpan(text)>>))
    /\ err' = ""
    /\ UNCHANGED <<photoDoc, hierDoc, result, now, pc, data>>

AddContent(id, block) ==
    /\ pc = "tree"
    /\ LET r == addContent(heap, id, block)
       IN  /\ heap' = r.heap
           /\ err' = r.err
    /\ UNCHANGED <<photoDoc, hierDoc, result, now, pc, data>>

AddSubPart(id, part) ==
    /\ pc \in {"tree", "api"}
    /\ heap' = addSubPart(heap, id, part)
    /\ err' = ""
    /\ UNCHANGED <<photoDoc, hierDoc, result, now, pc, data>>

AddPart(part) ==
    /\ pc \in {"tree", "api"}
    /\ \E t \in ClockReadings :
          /\ now' = t
          /\ hierDoc' = addPart(hierDoc, part, t)
    /\ err' = ""
    /\ UNCHANGED <<photoDoc, heap, result, pc, data>>

(***************************************************************************)
(* SpecTree: a hierarchical document is built through the API, every part  *)
(* attached at most once and never below itself, then flattened.           *)
(***************************************************************************)
InitTree ==
    /\ now = 0
    /\ photoDoc = NoDocument
    /\ heap = <<>>
    /\ hierDoc = HierarchicalDocument("T", "D", "M", 0)
    /\ result = NoDocument
    /\ data = NoData
    /\ pc = "tree"
    /\ err = ""

\* The blocks the driver hands to addContent.
TreeBlockInputs ==
    { ParagraphBlock(<<InlineSpan("p")>>),
      ListBlock(<< <<InlineSpan("l")>> >>),
      ImageBlock("imgA", Undefined, Undefined),
      HeadingBlock(MinHeadingLevel, <<InlineSpan("A")>>),
      HeadingBlock(MaxHeadingLevel, <<InlineSpan("A")>>) }

\* The driver names the parts it makes in order.
PartTexts == <<"A", "B", "C", "D", "E", "F">>

\* Parts and content blocks made so far.
TreeSize == Len(heap) + SumContent(heap, Len(heap))

NextTree ==
    \/ TreeSize < MaxTreeSize /\ NewPart(PartTexts[Len(heap) + 1])
    \/ \E id \in Parts, block \in TreeBlockInputs :
          /\ IsHeading(block) \/ TreeSize < MaxTreeSize
          /\ AddContent(id, block)
    \/ \E id \in Parts, part \in Parts :
          /\ Detached(part)
          /\ rootOf(heap, id) # part
          /\ AddSubPart(id, part)
    \/ \E part \in Parts : Detached(part) /\ AddPart(part)
    \/ ToPhotoDocument

SpecTree == InitTree /\ [][NextTree]_vars

(***************************************************************************)
(* SpecChain: the nested chain L1, L2, ... of the level tests, of any      *)
(* length up to MaxChain, to which further parts are attached anywhere.    *)
(***************************************************************************)
ChainTexts == <<"L1", "L2", "L3", "L4", "L5", "L6", "L7", "L8", "L9", "L10">>

RECURSIVE chainHeap(_)
chainHeap(n) ==
    IF n = 0 THEN <<>>
    ELSE LET h == Append(chainHeap(n - 1), DocumentPart(<<InlineSpan(ChainTexts[n])>>))
         IN  IF n = 1 THEN h ELSE addSubPart(h, n - 1, n)

\* The level tests nest ten parts: the driver adds parts up to that number.
MaxGrow == TestDepth - MaxChain

\* Parts made by NewPart (the chain's parts carry the chain's headings).
Grown == Cardinality({id \in Parts : heap[id].heading[1].text \in HeadingTexts})

InitChain ==
    /\ now = 0
    /\ photoDoc = NoDocument
    /\ \E n \in 0..MaxChain : heap = chainHeap(n)
    /\ hierDoc = HierarchicalDocument("T", "D", "M", 0)
    /\ result = NoDocument
    /\ data = NoData
    /\ pc = "tree"
    /\ err = ""

NextChain ==
    \/ Grown < MaxGrow /\ (\A id \in Parts : id = 1 \/ ~Detached(id)) /\ NewPart("A")
    \/ \E id \in Parts, part \in Parts :
          /\ Detached(part)
          /\ rootOf(heap, id) # part
          /\ AddSubPart(id, part)

SpecChain == InitChain /\ [][NextChain]_vars

(***************************************************************************)
(* SpecApi: addPart and addSubPart called with any parts, in any order.    *)
(***************************************************************************)
RECURSIVE SumSubParts(_, _)
SumSubParts(h, n) == IF n = 0 THEN 0 ELSE Len(h[n].subParts) + SumSubParts(h, n - 1)

ApiCalls == SumSubParts(heap, Len(heap)) + Len(hierDoc.parts)

InitApi ==
    /\ now = 0
    /\ photoDoc = NoDocument
    /\ heap = <<>>
    /\ hierDoc = HierarchicalDocument("T", "D", "M", 0)
    /\ result = NoDocument
    /\ data = NoData
    /\ pc = "api"
    /\ err = ""

\* The parts reached from the parts of S along the subParts lists.
RECURSIVE SubPartsClosure(_, _, _)
SubPartsClosure(h, S, n) ==
    LET T == S \cup UNION {Range(h[q].subParts) : q \in S}
    IN  IF n = 0 \/ T = S THEN S ELSE SubPartsClosure(h, T, n - 1)

\* The recursion of toJSON below the parts `ids` comes back to a part it is
\* in: it never returns, and the call ends when the stack is used up.
Recurs(h, ids) ==
    \E q \in SubPartsClosure(h, Range(ids), Len(h)) :
        q \in SubPartsClosure(h, Range(h[q].subParts), Len(h))

StackExceeded == "Maximum call stack size exceeded"

\* data = hierDoc.toJSON()
HierarchicalDocumentToJSON ==
    /\ pc \in {"api", "tree"}
    /\ IF Recurs(heap, hierDoc.parts)
       THEN data' = data /\ err' = StackExceeded /\ pc' = "failed"
       ELSE data' = HierarchicalDocument_toJSON(hierDoc, heap) /\ err' = "" /\ pc' = "sent"
    /\ UNCHANGED <<photoDoc, heap, hierDoc, result, now>>

\* result = HierarchicalDocument.fromJSON(data), of the data just written:
\* the document returned and the parts made for it.
HierarchicalDocumentReadBack ==
    /\ pc = "sent"
    /\ \E t \in ClockReadings :
          LET r == HierarchicalDocument_fromJSON(<<>>, data, t)
          IN  /\ now' = t
              /\ err' = r.err
              /\ IF r.err # ""
                 THEN result' = result /\ pc' = "failed"
                 ELSE result' = [doc |-> r.doc, heap |-> r.heap] /\ pc' = "received"
    /\ UNCHANGED <<photoDoc, heap, hierDoc, data>>

NextApi ==
    \/ \E text \in HeadingTexts : Len(heap) < MaxApiParts /\ NewPart(text)
    \/ \E id \in Parts, part \in Parts : ApiCalls < MaxApiCalls /\ AddSubPart(id, part)
    \/ \E part \in Parts : ApiCalls < MaxApiCalls /\ AddPart(part)
    \/ HierarchicalDocumentToJSON
    \/ HierarchicalDocumentReadBack

SpecApi == InitApi /\ [][NextApi]_vars

(***************************************************************************)
(* SpecJson: a JSON value arrives and is deserialized, as a flat document, *)
(* as a hierarchical document or as a single part; what was read is worked *)
(* on through the API, and a flat document is written out and read back.   *)
(***************************************************************************)
SeqUpTo(S, k) == UNION {[1..n -> S] : n \in 0..k}

SpanData(text, style) == [text |-> text, style |-> style]

HeadingData(lvl) ==
    [type |-> "heading", level |-> lvl, content |-> <<SpanData("A", "bold")>>]

ParagraphData == [type |-> "paragraph", content |-> <<SpanData("p", "text")>>]

ListData == [type |-> "list", items |-> << <<SpanData("l", "italic")>>, <<>> >>]

ImageData == [type |-> "image", imageId |-> "imgA", caption |-> "cap", alt |-> Undefined]

\* An entry of a type the library does not know.
UnknownData == [type |-> "unknown_type", data |-> "test"]

\* The levels tried: the two ends of the range and their outer neighbours.
LevelInputs == {MinHeadingLevel - 1, MinHeadingLevel, MaxHeadingLevel, MaxHeadingLevel + 1}

BlockDataInputs ==
    {HeadingData(l) : l \in LevelInputs} \cup {ParagraphData, ListData, ImageData, UnknownData}

PartContentDataInputs == {ParagraphData, ImageData, HeadingData(MinHeadingLevel), UnknownData}

\* The document properties of a JSON document: all given, or all the
\* optional ones missing.
HeaderInputs ==
    { [version |-> Version, title |-> "T", description |-> "D",
       created |-> toISOString(0), modified |-> toISOString(1), metadata |-> "M"],
      [version |-> Version, title |-> "T", description |-> Undefined,
       created |-> <<>>, modified |-> <<>>, metadata |-> Undefined] }

FlatData(hdr, blocks) ==
    [version |-> hdr.version, title |-> hdr.title, description |-> hdr.description,
     created |-> hdr.created, modified |-> hdr.modified, metadata |-> hdr.metadata,
     blocks |-> blocks]

\* The JSON documents of up to k blocks.
FlatDataInputs(k) ==
    {FlatData(hdr, blocks) : hdr \in HeaderInputs, blocks \in SeqUpTo(BlockDataInputs, k)}

\* A forest of n parts is given by the parent of each part (0 for a
\* top-level part, else an earlier part) and by the content entries, each
\* placed in a part.
ParentVectors(n) == {p \in [1..n -> 0..n] : \A i \in 1..n : p[i] < i}

Placements(n, k) == SeqUpTo((1..n) \X PartContentDataInputs, k)

RECURSIVE placedIn(_, _)
placedIn(pl, i) ==
    IF pl = <<>> THEN <<>>
    ELSE (IF Head(pl)[1] = i THEN <<Head(pl)[2]>> ELSE <<>>) \o placedIn(Tail(pl), i)

RECURSIVE PartData(_, _, _)
RECURSIVE childrenData(_, _, _, _)
PartData(p, pl, i) ==
    [heading |-> <<SpanData(PartTexts[i], "text")>>,
     content |-> placedIn(pl, i),
     subParts |-> childrenData(p, pl, i, i + 1)]

childrenData(p, pl, i, j) ==
    IF j > Len(p) THEN <<>>
    ELSE (IF p[j] = i THEN <<PartData(p, pl, j)>> ELSE <<>>) \o childrenData(p, pl, i, j + 1)

HierData(hdr, p, pl) ==
    [version |-> hdr.version, title |-> hdr.title, description |-> hdr.description,
     created |-> hdr.created, modified |-> hdr.modified, metadata |-> hdr.metadata,
     parts |-> childrenData(p, pl, 0, 1)]

\* The JSON documents of up to m parts and k content entries.
HierDataInputs(m, k) ==
    UNION {{HierData(hdr, p, pl) : hdr \in HeaderInputs, p \in ParentVectors(n), pl \in Placements(n, k)} :
           n \in 0..m}

\* A single part with everything below it.
PartDataInputs(m, k) ==
    UNION {{PartData(p, pl, 1) : p \in {q \in ParentVectors(n) : \A i \in 2..n : q[i] > 0},
                                 pl \in Placements(n, k)} :
           n \in 1..m}

IsFlatData(d) == "blocks" \in DOMAIN d

IsHierData(d) == "parts" \in DOMAIN d

IsPartData(d) == "subParts" \in DOMAIN d

InitJson ==
    /\ now = 0
    /\ photoDoc = NoDocument
    /\ heap = <<>>
    /\ hierDoc = HierarchicalDocument("", "", "", 0)
    /\ result = NoDocument
    /\ data \in FlatDataInputs(MaxJsonBlocks)
               \cup HierDataInputs(MaxJsonParts, MaxJsonBlocks)
               \cup PartDataInputs(MaxJsonParts, MaxJsonBlocks)
    /\ pc = "json"
    /\ err = ""

\* photoDoc = PhotoDocument.fromJSON(data)
PhotoDocumentFromJSON ==
    /\ pc = "json"
    /\ IsFlatData(data)
    /\ \E t \in ClockReadings :
          LET r == PhotoDocument_fromJSON(data, t)
          IN  /\ now' = t
              /\ err' = r.err
              /\ IF r.err # ""
                 THEN photoDoc' = photoDoc /\ pc' = "failed"
                 ELSE photoDoc' = r.doc /\ pc' = "edit"
    /\ UNCHANGED <<heap, hierDoc, result, data>>

\* hierDoc = HierarchicalDocument.fromJSON(data)
HierarchicalDocumentFromJSON ==
    /\ pc = "json"
    /\ IsHierData(data)
    /\ \E t \in ClockReadings :
          LET r == HierarchicalDocument_fromJSON(heap, data, t)
          IN  /\ now' = t
              /\ err' = r.err
              /\ IF r.err # ""
                 THEN heap' = heap /\ hierDoc' = hierDoc /\ pc' = "failed"
                 ELSE heap' = r.heap /\ hierDoc' = r.doc /\ pc' = "tree"
    /\ UNCHANGED <<photoDoc, result, data>>

\* DocumentPart.fromJSON(data), into a document made for it.
DocumentPartFromJSON ==
    /\ pc = "json"
    /\ IsPartData(data)
    /\ LET r == DocumentPart_fromJSON(heap, data)
       IN  /\ err' = r.err
           /\ IF r.err # ""
              THEN heap' = heap /\ hierDoc' = hierDoc /\ pc' = "failed"
              ELSE heap' = r.heap /\ hierDoc' = HierarchicalDocument("T", "D", "M", now) /\ pc' = "tree"
    /\ UNCHANGED <<photoDoc, result, data, now>>

\* doc.addBlock(new HeadingBlock(level, content))
ConstructHeading(lvl) ==
    /\ pc = "edit"
    /\ Len(photoDoc.blocks) < MaxBlocks
    /\ LET r == HeadingBlock_constructor(lvl, <<InlineSpan("A")>>)
       IN  /\ err' = r.err
           /\ IF r.err # ""
              THEN photoDoc' = photoDoc /\ now' = now
              ELSE \E t \in ClockReadings :
                      now' = t /\ photoDoc' = addBlock(photoDoc, r.block, t)
    /\ UNCHANGED <<heap, hierDoc, result, data, pc>>

\* data = photoDoc.toJSON()
PhotoDocumentToJSON ==
    /\ pc = "edit"
    /\ data' = PhotoDocument_toJSON(photoDoc)
    /\ pc' = "sent"
    /\ UNCHANGED <<photoDoc, heap, hierDoc, result, now, err>>

\* result = PhotoDocument.fromJSON(data), of the data just written.
PhotoDocumentReadBack ==
    /\ pc = "sent"
    /\ \E t \in ClockReadings :
          LET r == PhotoDocument_fromJSON(data, t)
          IN  /\ now' = t
              /\ err' = r.err
              /\ IF r.err # ""
                 THEN result' = result /\ pc' = "failed"
                 ELSE result' = r.doc /\ pc' = "received"
    /\ UNCHANGED <<photoDoc, heap, hierDoc, data>>

\* The blocks the driver adds to a document it has read.
JsonBlockInputs ==
    { ParagraphBlock(<<InlineSpanStyled("p", "bold_italic"), InlineSpan("q")>>),
      ImageBlock("imgB", Undefined, "alt") }

JsonTreeBlockInputs ==
    { ParagraphBlock(<<InlineSpan("p")>>), HeadingBlock(MaxHeadingLevel, <<InlineSpan("A")>>) }

NextJson ==
    \/ PhotoDocumentFromJSON
    \/ HierarchicalDocumentFromJSON
    \/ DocumentPartFromJSON
    \/ \E lvl \in LevelInputs :
          Len(photoDoc.blocks) < MaxJsonBlocks /\ ConstructHeading(lvl)
    \/ \E block \in JsonBlockInputs :
          Len(photoDoc.blocks) < MaxJsonBlocks /\ AddBlock(block)
    \/ PhotoDocumentToJSON
    \/ PhotoDocumentReadBack
    \/ FromPhotoDocument
    \/ Len(heap) < MaxJsonParts /\ NewPart(PartTexts[Len(heap) + 1])
    \/ \E id \in Parts, block \in JsonTreeBlockInputs :
          /\ IsHeading(block) \/ SumContent(heap, Len(heap)) < MaxJsonBlocks
          /\ AddContent(id, block)
    \/ \E id \in Parts, part \in Parts :
          /\ Detached(part)
          /\ rootOf(heap, id) # part
          /\ AddSubPart(id, part)
    \/ \E part \in Parts : Detached(part) /\ AddPart(part)
    \/ ToPhotoDocument

SpecJson == InitJson /\ [][NextJson]_vars

(***************************************************************************)
(* SpecQuery: a flat document or a part tree is built through the API and  *)
(* then asked for its image ids, for the ids missing from a set of known   *)
(* ids, or for its table of contents, or converted to the other form.      *)
(***************************************************************************)
QueryImageIds == {"imgA", "imgB", "imgC"}

QueryBlockInputs ==
    {ImageBlock(i, Undefined, Undefined) : i \in QueryImageIds}
    \cup {ParagraphBlock(<<InlineSpan("p")>>), HeadingBlock(MinHeadingLevel, <<InlineSpan("A")>>)}

QueryContentInputs ==
    { ImageBlock("imgA", Undefined, Undefined),
      ImageBlock("imgB", "cap", Undefined),
      ParagraphBlock(<<InlineSpan("p")>>) }

\* The headings of the parts the driver makes, in order.
QueryHeadings ==
    << <<InlineSpan("A")>>,
       <<InlineSpanStyled("B", "bold"), InlineSpan("b")>>,
       <<InlineSpan("C")>>,
       <<>>,
       <<InlineSpan("E")>>,
       <<InlineSpan("F")>> >>

InitQuery ==
    /\ now = 0
    /\ photoDoc = PhotoDocument("T", "D", "M", 0)
    /\ heap = <<>>
    /\ hierDoc = HierarchicalDocument("T", "D", "M", 0)
    /\ result = NoDocument
    /\ data = NoData
    /\ pc \in {"edit", "tree"}
    /\ err = ""

\* new DocumentPart(heading)
NewPartOf(heading) ==
    /\ pc = "tree"
    /\ heap' = Append(heap, DocumentPart(heading))
    /\ err' = ""
    /\ UNCHANGED <<photoDoc, hierDoc, result, data, now, pc>>

\* result = photoDoc.getImageIds()
GetImageIds ==
    /\ pc = "edit"
    /\ result' = PhotoDocument_getImageIds(photoDoc)
    /\ pc' = "ids"
    /\ UNCHANGED <<photoDoc, heap, hierDoc, data, now, err>>

\* result = photoDoc.validateImageIds(validIds), with validIds after the call.
ValidateImageIds(validIds) ==
    /\ pc = "edit"
    /\ result' = [validIds |-> validIds,
                  missingIds |-> PhotoDocument_validateImageIds(photoDoc, validIds)]
    /\ pc' = "missing"
    /\ UNCHANGED <<photoDoc, heap, hierDoc, data, now, err>>

\* result = hierDoc.getImageIds()
HierGetImageIds ==
    /\ pc = "tree"
    /\ result' = HierarchicalDocument_getImageIds(hierDoc, heap)
    /\ pc' = "hierIds"
    /\ UNCHANGED <<photoDoc, heap, hierDoc, data, now, err>>

\* result = hierDoc.validateImageIds(validIds), with validIds after the call.
HierValidateImageIds(validIds) ==
    /\ pc = "tree"
    /\ result' = [validIds |-> validIds,
                  missingIds |-> HierarchicalDocument_validateImageIds(hierDoc, heap, validIds)]
    /\ pc' = "hierMissing"
    /\ UNCHANGED <<photoDoc, heap, hierDoc, data, now, err>>

\* result = hierDoc.generateTOC()
GenerateTOC ==
    /\ pc = "tree"
    /\ result' = generateTOC(hierDoc, heap)
    /\ pc' = "toc"
    /\ UNCHANGED <<photoDoc, heap, hierDoc, data, now, err>>

QueryTreeSize == Len(heap) + SumContent(heap, Len(heap))

\* The driver makes a part, fills it, attaches it, and only then makes the
\* next one.
NextQuery ==
    \/ \E block \in QueryBlockInputs : AddBlock(block)
    \/ GetImageIds
    \/ \E validIds \in SUBSET QueryImageIds : ValidateImageIds(validIds)
    \/ /\ QueryTreeSize < MaxQueryTree
       /\ \A id \in Parts : ~Detached(id)
       /\ NewPartOf(QueryHeadings[Len(heap) + 1])
    \/ \E id \in Parts, block \in QueryContentInputs :
          /\ QueryTreeSize < MaxQueryTree
          /\ Detached(id)
          /\ AddContent(id, block)
    \/ \E id \in Parts, part \in Parts :
          /\ Detached(part)
          /\ rootOf(heap, id) # part
          /\ AddSubPart(id, part)
    \/ \E part \in Parts : Detached(part) /\ AddPart(part)
    \/ HierGetImageIds
    \/ \E validIds \in SUBSET QueryImageIds : HierValidateImageIds(validIds)
    \/ GenerateTOC
    \/ FromPhotoDocument
    \/ ToPhotoDocument

SpecQuery == InitQuery /\ [][NextQuery]_vars

(***************************************************************************)
(* SpecHtml: a paragraph of one span is written and the span rendered as   *)
(* HTML.                                                                   *)
(***************************************************************************)
\* The pieces a text is made of.
TextPieces == {"&", "<", ">", "\"", "lt", ";", "a"}

\* The text of the escaping test of the specification.
ScriptText == <<"<", "script", ">", "alert(1)", "<", "/script", ">">>

InlineTypes == {"text", "bold", "italic", "bold_italic"}

TextInputs(k) == SeqUpTo(TextPieces, k) \cup {ScriptText}

InitHtml ==
    /\ now = 0
    /\ \E text \in TextInputs(MaxTextLen), style \in InlineTypes :
          photoDoc = addBlock(PhotoDocument("T", "D", "M", 0),
                              ParagraphBlock(<<InlineSpanStyled(text, style)>>), 0)
    /\ heap = <<>>
    /\ hierDoc = HierarchicalDocument("", "", "", 0)
    /\ result = NoDocument
    /\ data = NoData
    /\ pc = "edit"
    /\ err = ""

\* result = span.toHTML(), of the span of the paragraph.
SpanToHTML ==
    /\ pc = "edit"
    /\ result' = InlineSpan_toHTML(photoDoc.blocks[1].content[1])
    /\ pc' = "html"
    /\ UNCHANGED <<photoDoc, heap, hierDoc, data, now, err>>

NextHtml == SpanToHTML

SpecHtml == InitHtml /\ [][NextHtml]_vars

(***************************************************************************)
(* SpecScan: fromPhotoDocument runs block by block over a flat document    *)
(* that starts with a run of headings of rising levels; the result is      *)
(* flattened, and the flat document is converted and flattened again.      *)
(* While the scan runs, `result` holds its local variables: the stack and  *)
(* the number of the next block.                                           *)
(***************************************************************************)
RisingHeadings(n) ==
    [i \in 1..n |-> HeadingBlock(Min(i, MaxHeadingLevel), <<InlineSpan("A")>>)]

ScanBlockInputs ==
    {HeadingBlock(l, <<InlineSpan("B")>>) : l \in HeadingLevels}
    \cup {ParagraphBlock(<<InlineSpan("p")>>), ImageBlock("imgA", Undefined, Undefined)}

\* Nothing or a paragraph, then up to n rising headings, then up to k blocks.
ScanDocInputs(n, k) ==
    {pre \o RisingHeadings(m) \o extra :
        pre \in {<<>>, <<ParagraphBlock(<<InlineSpan("p")>>)>>},
        m \in 0..n,
        extra \in SeqUpTo(ScanBlockInputs, k)}

InitScan ==
    /\ now = 0
    /\ \E blocks \in ScanDocInputs(MaxRise, MaxScanExtra) :
          photoDoc = [PhotoDocument("T", "D", "M", 0) EXCEPT !.blocks = blocks]
    /\ heap = <<>>
    /\ hierDoc = HierarchicalDocument("", "", "", 0)
    /\ result = NoDocument
    /\ data = NoData
    /\ pc = "edit"
    /\ err = ""

\* fromPhotoDocument up to its loop.
ScanStart ==
    /\ pc = "edit"
    /\ hierDoc' = [HierarchicalDocument(photoDoc.title, photoDoc.description,
                                        photoDoc.metadata, now)
                       EXCEPT !.created = photoDoc.created, !.modified = photoDoc.modified]
    /\ heap' = <<>>
    /\ IF Len(photoDoc.blocks) = 0
       THEN pc' = "hier" /\ result' = result
       ELSE /\ pc' = "scan"
            /\ result' = [stack |-> <<[part |-> PhantomRoot, level |-> 0]>>, next |-> 1]
    /\ UNCHANGED <<photoDoc, data, now, err>>

\* One iteration of the loop.  The clock is read by addPart only.
ScanBlock ==
    /\ pc = "scan"
    /\ result.next <= Len(photoDoc.blocks)
    /\ \E t \in ClockReadings :
          LET st == scanBlock([doc |-> hierDoc, heap |-> heap, stack |-> result.stack],
                              photoDoc.blocks[result.next], t)
          IN  /\ st.doc.parts = hierDoc.parts => t = now
              /\ now' = t
              /\ hierDoc' = st.doc
              /\ heap' = st.heap
              /\ result' = [stack |-> st.stack, next |-> result.next + 1]
    /\ UNCHANGED <<photoDoc, data, pc, err>>

\* The loop is over: return hierDoc.
ScanReturn ==
    /\ pc = "scan"
    /\ result.next > Len(photoDoc.blocks)
    /\ result' = NoDocument
    /\ pc' = "hier"
    /\ UNCHANGED <<photoDoc, heap, hierDoc, data, now, err>>

\* hierDoc = HierarchicalDocument.fromPhotoDocument(result), of the flat
\* document just made.
Rehierarchize ==
    /\ pc = "flat"
    /\ \E t \in ClockReadings :
          LET r == fromPhotoDocument(result, t)
          IN  /\ r.doc.parts = <<>> => t = now
              /\ now' = t
              /\ hierDoc' = r.doc
              /\ heap' = r.heap
    /\ pc' = "hier2"
    /\ UNCHANGED <<photoDoc, result, data, err>>

\* result = hierDoc.toPhotoDocument(), the second time.
Reflatten ==
    /\ pc = "hier2"
    /\ result' = toPhotoDocument(hierDoc, heap)
    /\ pc' = "flat2"
    /\ UNCHANGED <<photoDoc, heap, hierDoc, data, now, err>>

NextScan ==
    \/ ScanStart
    \/ ScanBlock
    \/ ScanReturn
    \/ ToPhotoDocument
    \/ Rehierarchize
    \/ Reflatten

SpecScan == InitScan /\ [][NextScan]_vars

(***************************************************************************)
(* SpecRound: a document holds the nested chain L1, L2, ... as its first   *)
(* part; further parts and content blocks are added, every part once; the  *)
(* document is flattened and a hierarchical document is made again from    *)
(* the flat one.                                                           *)
(***************************************************************************)
RoundBlockInputs ==
    {ParagraphBlock(<<InlineSpan("p")>>), ImageBlock("imgA", Undefined, Undefined)}

InitRound ==
    /\ now = 0
    /\ photoDoc = NoDocument
    /\ \E n \in 0..MaxChain :
          /\ heap = chainHeap(n)
          /\ hierDoc = IF n = 0 THEN HierarchicalDocument("T", "D", "M", 0)
                       ELSE addPart(HierarchicalDocument("T", "D", "M", 0), 1, 0)
    /\ result = NoDocument
    /\ data = NoData
    /\ pc = "tree"
    /\ err = ""

\* result = HierarchicalDocument.fromPhotoDocument(result), of the flat
\* document just made: the document returned and the parts made for it.
Rebuild ==
    /\ pc = "flat"
    /\ \E t \in ClockReadings :
          LET r == fromPhotoDocument(result, t)
          IN  /\ r.doc.parts = <<>> => t = now
              /\ now' = t
              /\ result' = [doc |-> r.doc, heap |-> r.heap]
    /\ pc' = "rebuilt"
    /\ UNCHANGED <<photoDoc, heap, hierDoc, data, err>>

NextRound ==
    \/ /\ Grown < MaxRoundGrow
       /\ \A id \in Parts : ~Detached(id)
       /\ NewPart("A")
    \/ \E id \in Parts, block \in RoundBlockInputs :
          /\ SumContent(heap, Len(heap)) < MaxRoundContent
          /\ AddContent(id, block)
    \/ \E id \in Parts, part \in Parts :
          /\ Detached(part)
          /\ rootOf(heap, id) # part
          /\ AddSubPart(id, part)
    \/ \E part \in Parts : Detached(part) /\ AddPart(part)
    \/ ToPhotoDocument
    \/ Rebuild

SpecRound == InitRound /\ [][NextRound]_vars

(***************************************************************************)
(* Vocabulary of the properties, stated on the block sequences and on the  *)
(* subParts lists, independently of the scan and of the parent pointers.   *)
(***************************************************************************)
Max(S) == CHOOSE x \in S : \A y \in S : y <= x

Least(S) == CHOOSE x \in S : \A y \in S : x <= y

HeadingIdx(blocks) == {i \in 1..Len(blocks) : IsHeading(blocks[i])}

\* Index of the first heading after position i, or one past the end.
NextHeadingIdx(blocks, i) ==
    Least({k \in HeadingIdx(blocks) : k > i} \cup {Len(blocks) + 1})

\* The non-heading blocks that directly follow position i.
RunAfter(blocks, i) == SubSeq(blocks, i + 1, NextHeadingIdx(blocks, i) - 1)

HasImplicit(blocks) == blocks # <<>> /\ ~IsHeading(blocks[1])

\* Parts are allocated in the order the scan makes them: the part made for
\* the heading at position i.
PartOfHeading(blocks, i) ==
    Cardinality({k \in HeadingIdx(blocks) : k <= i}) + (IF HasImplicit(blocks) THEN 1 ELSE 0)

SmallerBefore(blocks, i) ==
    {k \in HeadingIdx(blocks) : k < i /\ blocks[k].level < blocks[i].level}

ExpectedParent(blocks, i) ==
    IF SmallerBefore(blocks, i) # {}
    THEN PartOfHeading(blocks, Max(SmallerBefore(blocks, i)))
    ELSE IF HasImplicit(blocks) /\ 1 < blocks[i].level THEN 1 ELSE NoParent

Holders(h, S) == {q \in 1..Len(h) : \E x \in S : x \in Range(h[q].subParts)}

RECURSIVE HoldersClosure(_, _, _)
HoldersClosure(h, S, n) ==
    IF n = 0 \/ Holders(h, S) \subseteq S THEN S
    ELSE HoldersClosure(h, S \cup Holders(h, S), n - 1)

\* The parts that hold id in the subParts lists, directly or through others.
Ancestors(h, id) == HoldersClosure(h, Holders(h, {id}), Len(h))

\* Pre-order listing of the parts below `todo`, with an explicit work list.
RECURSIVE PreOrderWalk(_, _, _)
PreOrderWalk(h, todo, acc) ==
    IF todo = <<>> THEN acc
    ELSE PreOrderWalk(h, h[Head(todo)].subParts \o Tail(todo), Append(acc, Head(todo)))

RECURSIVE ConcatParts(_, _)
ConcatParts(h, ids) ==
    IF ids = <<>> THEN <<>>
    ELSE <<[type |-> "heading", level |-> level(h, Head(ids)), content |-> h[Head(ids)].heading]>>
         \o h[Head(ids)].content \o ConcatParts(h, Tail(ids))

Contiguous(blocks) ==
    /\ blocks # <<>>
    /\ IsHeading(blocks[1])
    /\ blocks[1].level = 1
    /\ \A i \in HeadingIdx(blocks) \ {1} :
          blocks[i].level <= blocks[Max({k \in HeadingIdx(blocks) : k < i})].level + 1

H(l, text) == [type |-> "heading", level |-> l, content |-> <<[text |-> text, style |-> "text"]>>]

Para == [type |-> "paragraph", content |-> <<[text |-> "p", style |-> "text"]>>]

Img(i) == [type |-> "image", imageId |-> i, caption |-> "undefined", alt |-> "undefined"]

(***************************************************************************)
(* C1. Round trip on contiguous levels: a flat document that starts with a *)
(* level-1 heading and in which no heading is more than one level deeper   *)
(* than the heading before it is reproduced block for block by             *)
(* fromPhotoDocument followed by toPhotoDocument.                          *)
(***************************************************************************)
RoundTripContiguous ==
    (pc = "flat" /\ Contiguous(photoDoc.blocks)) => result.blocks = photoDoc.blocks

RoundTripContiguousWitness ==
    /\ pc = "flat"
    /\ Contiguous(photoDoc.blocks)
    /\ Len(photoDoc.blocks) = 3
    /\ IsHeading(photoDoc.blocks[2])
    /\ photoDoc.blocks[2].level = 2
    /\ ~IsHeading(photoDoc.blocks[3])

(***************************************************************************)
(* C2. Parent selection: the part made for a heading of level L is a       *)
(* sub-part of the part of the most recent earlier heading of level < L    *)
(* (the implicit part counting as level 1), and a top-level part when      *)
(* there is none; it is attached exactly there and nowhere else.           *)
(***************************************************************************)
ParentSelection ==
    pc = "hier" =>
        \A i \in HeadingIdx(photoDoc.blocks) :
            LET part == PartOfHeading(photoDoc.blocks, i)
                exp == ExpectedParent(photoDoc.blocks, i)
            IN  /\ part \in Parts
                /\ heap[part].heading = photoDoc.blocks[i].content
                /\ heap[part].parent = exp
                /\ IF exp = NoParent
                   THEN /\ Cardinality({k \in 1..Len(hierDoc.parts) : hierDoc.parts[k] = part}) = 1
                        /\ Holders(heap, {part}) = {}
                   ELSE /\ part \notin Range(hierDoc.parts)
                        /\ Holders(heap, {part}) = {exp}
                        /\ Cardinality({k \in 1..Len(heap[exp].subParts) :
                                           heap[exp].subParts[k] = part}) = 1

\* H1, H3, H2: the H2 goes below the H1, past the H3 before it.
ParentSelectionWitness ==
    /\ pc = "hier"
    /\ \E i \in HeadingIdx(photoDoc.blocks) :
          /\ SmallerBefore(photoDoc.blocks, i) # {}
          /\ Max(SmallerBefore(photoDoc.blocks, i)) < i - 1
          /\ IsHeading(photoDoc.blocks[i - 1])
          /\ heap[PartOfHeading(photoDoc.blocks, i)].parent = 1

(***************************************************************************)
(* C3. Normalization: after fromPhotoDocument and toPhotoDocument the k-th *)
(* Heading block is the heading of the k-th part and carries the level     *)
(* 1 + (number of the part's ancestors); [H1 A, H3 B] makes B a direct     *)
(* child of A and comes back as [H1 A, H2 B].                              *)
(***************************************************************************)
NormalizedLevels ==
    pc = "flat" =>
        LET hs == SelectSeq(result.blocks, IsHeading)
        IN  /\ Len(hs) = Len(heap)
            /\ \A k \in 1..Len(hs) :
                  /\ hs[k].level = 1 + Cardinality(Ancestors(heap, k))
                  /\ hs[k].content = heap[k].heading
            /\ photoDoc.blocks = <<H(1, "A"), H(3, "B")>> =>
                  /\ heap[1].subParts = <<2>>
                  /\ result.blocks = <<H(1, "A"), H(2, "B")>>

NormalizedLevelsWitness ==
    /\ pc = "flat"
    /\ photoDoc.blocks = <<H(1, "A"), H(3, "B")>>
    /\ result.blocks[2].level = 2

(***************************************************************************)
(* C4. Flatten is a pre-order traversal: toFlatBlocks of a part is, for    *)
(* the parts below it in pre-order, one Heading block (derived level, the  *)
(* part's heading) followed by the part's content; toPhotoDocument is the  *)
(* same over the top-level parts.  Part A with a paragraph and sub-part B  *)
(* with image imgA gives [H1 A, Paragraph, H2 B, Image imgA].              *)
(***************************************************************************)
TripRome ==
    /\ Len(heap) = 2
    /\ hierDoc.parts = <<1>>
    /\ heap[1].content = <<Para>> /\ heap[1].subParts = <<2>>
    /\ heap[2].content = <<Img("imgA")>> /\ heap[2].subParts = <<>>

FlattenPreOrder ==
    /\ \A id \in Parts :
          toFlatBlocks(heap, id) = ConcatParts(heap, PreOrderWalk(heap, <<id>>, <<>>))
    /\ pc = "flat" =>
          /\ result.blocks = ConcatParts(heap, PreOrderWalk(heap, hierDoc.parts, <<>>))
          /\ TripRome => result.blocks = <<H(1, "A"), Para, H(2, "B"), Img("imgA")>>

FlattenPreOrderWitness == pc = "flat" /\ TripRome /\ Len(result.blocks) = 4

(***************************************************************************)
(* C5. As claimed: in a flattened part tree every Heading block is         *)
(* directly followed only by a non-heading block or by a heading exactly   *)
(* one level deeper.                                                       *)
(***************************************************************************)
ContentOrChildFollows(blocks) ==
    \A i \in 1..(Len(blocks) - 1) :
        IsHeading(blocks[i]) =>
            \/ ~IsHeading(blocks[i + 1])
            \/ blocks[i + 1].level = blocks[i].level + 1

NoDeeperThanChildFollows(blocks) ==
    \A i \in 1..(Len(blocks) - 1) :
        IsHeading(blocks[i]) =>
            \/ ~IsHeading(blocks[i + 1])
            \/ blocks[i + 1].level <= blocks[i].level + 1

ContentPlacement ==
    pc = "hier" =>
        \A i \in HeadingIdx(photoDoc.blocks) :
            heap[PartOfHeading(photoDoc.blocks, i)].content = RunAfter(photoDoc.blocks, i)

ContentPlacementWitness ==
    /\ pc = "hier"
    /\ Len(photoDoc.blocks) = 3
    /\ IsHeading(photoDoc.blocks[1])
    /\ ~IsHeading(photoDoc.blocks[2]) /\ ~IsHeading(photoDoc.blocks[3])
    /\ photoDoc.blocks[2] # photoDoc.blocks[3]
    /\ Len(heap[1].content) = 2

(***************************************************************************)
(* C7. Pre-heading content: an input that starts with non-heading blocks   *)
(* gets exactly one part headed '(Untitled)', the first top-level part,    *)
(* holding the blocks before the first heading in order; a level-1 heading *)
(* that comes first after them starts the second top-level part.  No       *)
(* implicit part for an empty input or one that starts with a heading.     *)
(***************************************************************************)
UntitledParts == {id \in Parts : heap[id].heading = Untitled}

PreHeadingContent ==
    pc = "hier" =>
        LET blocks == photoDoc.blocks
            f == NextHeadingIdx(blocks, 0)
        IN  /\ blocks = <<>> => heap = <<>> /\ hierDoc.parts = <<>>
            /\ IF HasImplicit(blocks)
               THEN /\ UntitledParts = {1}
                    /\ hierDoc.parts[1] = 1
                    /\ heap[1].parent = NoParent
                    /\ Holders(heap, {1}) = {}
                    /\ heap[1].content = RunAfter(blocks, 0)
                    /\ (f <= Len(blocks) /\ blocks[f].level = 1) =>
                          /\ Len(hierDoc.parts) >= 2
                          /\ hierDoc.parts[2] = 2
                          /\ heap[2].heading = blocks[f].content
                          /\ heap[2].parent = NoParent
               ELSE UntitledParts = {}

PreHeadingContentWitness ==
    /\ pc = "hier"
    /\ Len(photoDoc.blocks) = 3
    /\ ~IsHeading(photoDoc.blocks[1]) /\ ~IsHeading(photoDoc.blocks[2])
    /\ IsHeading(photoDoc.blocks[3]) /\ photoDoc.blocks[3].level = 1
    /\ hierDoc.parts = <<1, 2>>

(***************************************************************************)
(* C8. Derived level: whenever the walk returns, a part's level is         *)
(* min(1 + number of ancestors, 6), so it lies in 1..6; the k-th part of   *)
(* the nested chain has level min(k, 6).                                   *)
(***************************************************************************)
DerivedLevel ==
    /\ \A id \in Parts :
          LET lvl == level(heap, id)
          IN  /\ lvl = Min(1 + Cardinality(Ancestors(heap, id)), 6)
              /\ lvl \in 1..6
    /\ \A k \in Parts :
          (/\ heap[1].parent = NoParent
           /\ k <= Len(ChainTexts)
           /\ heap[k].heading[1].text = ChainTexts[k]) =>
              level(heap, k) = Min(k, 6)

\* A chain of ten nested parts.
DerivedLevelWitness ==
    \E id \in Parts :
        /\ Cardinality(Ancestors(heap, id)) = 9
        /\ level(heap, id) = 6

(***************************************************************************)
(* C9. Top-level parts have no parent: every part in the document's parts  *)
(* list has no parent and level 1, after any addPart and addSubPart calls. *)
(***************************************************************************)
TopLevelPartsHaveNoParent ==
    \A k \in 1..Len(hierDoc.parts) :
        /\ heap[hierDoc.parts[k]].parent = NoParent
        /\ level(heap, hierDoc.parts[k]) = 1

(***************************************************************************)
(* C10. addContent with a Heading block fails with 'Headings not allowed'  *)
(* and leaves every part as it was; with any other block it appends the    *)
(* block as the last content element of the part and changes nothing else. *)
(***************************************************************************)
AddContentContract ==
    [][\A id \in Parts, block \in TreeBlockInputs :
          AddContent(id, block) =>
              IF block.type = "heading"
              THEN err' = HeadingsNotAllowed /\ heap' = heap
              ELSE /\ err' = ""
                   /\ Len(heap') = Len(heap)
                   /\ heap'[id].content = heap[id].content \o <<block>>
                   /\ heap'[id].heading = heap[id].heading
                   /\ heap'[id].subParts = heap[id].subParts
                   /\ heap'[id].parent = heap[id].parent
                   /\ \A q \in Parts \ {id} : heap'[q] = heap[q]]_vars

AddContentContractWitness ==
    /\ err = HeadingsNotAllowed
    /\ \E id \in Parts : Len(heap[id].content) = 2 /\ heap[id].subParts # <<>>

(***************************************************************************)
(* C11. No part's content ever holds a Heading block, whatever was         *)
(* deserialized (DocumentPart.fromJSON, HierarchicalDocument.fromJSON),    *)
(* converted (fromPhotoDocument) or added (addContent, addSubPart,         *)
(* addPart).                                                               *)
(***************************************************************************)
NoHeadingInContent ==
    \A id \in Parts : \A i \in 1..Len(heap[id].content) : heap[id].content[i].type # "heading"

\* A tree read from JSON, with content, on which addContent then refused a
\* heading.
NoHeadingInContentWitness ==
    /\ pc = "tree"
    /\ IsHierData(data)
    /\ err = HeadingsNotAllowed
    /\ \E id \in Parts : Len(heap[id].content) = 2 /\ heap[id].parent # NoParent

(***************************************************************************)
(* C12. Heading level validation: new HeadingBlock with a level below 1 or *)
(* above 6 throws and adds nothing; PhotoDocument.fromJSON of data with    *)
(* such a heading entry throws and returns no document; a level that is    *)
(* accepted is kept as given; and every Heading block of every document    *)
(* has a level in 1..6.                                                    *)
(***************************************************************************)
LevelOutOfRange(lvl) == lvl < 1 \/ lvl > 6

HeadingLevelsOf(blocks) ==
    {blocks[i].level : i \in {k \in 1..Len(blocks) : blocks[k].type = "heading"}}

\* The entries of a JSON block list that cannot be deserialized.
BadEntries(ds) ==
    {i \in 1..Len(ds) :
        \/ ds[i].type \notin {"heading", "paragraph", "list", "image"}
        \/ ds[i].type = "heading" /\ LevelOutOfRange(ds[i].level)}

HeadingLevelValidation ==
    [][/\ \A lvl \in LevelInputs :
             ConstructHeading(lvl) =>
                 IF LevelOutOfRange(lvl)
                 THEN err' = HeadingLevelMessage(lvl) /\ photoDoc' = photoDoc
                 ELSE /\ err' = ""
                      /\ photoDoc'.blocks = photoDoc.blocks \o
                            <<[type |-> "heading", level |-> lvl,
                               content |-> <<[text |-> "A", style |-> "text"]>>]>>
       /\ (PhotoDocumentFromJSON \/ PhotoDocumentReadBack) =>
             IF BadEntries(data.blocks) # {}
             THEN LET i == Least(BadEntries(data.blocks))
                  IN  /\ pc' = "failed"
                      /\ err' # ""
                      /\ photoDoc' = photoDoc /\ result' = result
                      /\ data.blocks[i].type = "heading" =>
                            err' = HeadingLevelMessage(data.blocks[i].level)
             ELSE /\ pc' # "failed"
                  /\ err' = ""
                  /\ \A i \in 1..Len(data.blocks) :
                        data.blocks[i].type = "heading" =>
                            (IF pc = "json" THEN photoDoc' ELSE result').blocks[i].level
                                = data.blocks[i].level
       /\ HeadingLevelsOf(photoDoc'.blocks) \subseteq 1..6
       /\ HeadingLevelsOf(result'.blocks) \subseteq 1..6]_vars

\* A level-7 heading was refused after a level-6 heading was read from JSON.
HeadingLevelValidationWitness ==
    /\ pc = "edit"
    /\ err = HeadingLevelMessage(7)
    /\ HeadingLevelsOf(photoDoc.blocks) = {6}

(***************************************************************************)
(* The content entries of a JSON part tree, in the order in which          *)
(* deserialization meets them.                                             *)
(***************************************************************************)
RECURSIVE EntriesOfPart(_)
RECURSIVE EntriesOfParts(_)
EntriesOfPart(d) == d.content \o EntriesOfParts(d.subParts)

EntriesOfParts(ds) ==
    IF ds = <<>> THEN <<>> ELSE EntriesOfPart(Head(ds)) \o EntriesOfParts(Tail(ds))

EntriesOfTree(d) == IF IsHierData(d) THEN EntriesOfParts(d.parts) ELSE EntriesOfPart(d)

KnownTypes == {"heading", "paragraph", "list", "image"}

\* The entries that a part's content cannot take.
BadPartEntries(es) == {i \in 1..Len(es) : es[i].type \notin {"paragraph", "list", "image"}}

\* No document came out of the deserialization.
NothingReturned ==
    /\ photoDoc = NoDocument
    /\ heap = <<>>
    /\ hierDoc.parts = <<>>

UnknownTypeFailsFlat ==
    (/\ pc # "json"
     /\ IsFlatData(data)
     /\ BadEntries(data.blocks) # {}
     /\ data.blocks[Least(BadEntries(data.blocks))].type \notin KnownTypes) =>
        /\ pc = "failed"
        /\ err = "Unknown block type: unknown_type"
        /\ NothingReturned

UnknownTypeFailsPart ==
    (/\ pc # "json"
     /\ ~IsFlatData(data)
     /\ BadPartEntries(EntriesOfTree(data)) # {}
     /\ EntriesOfTree(data)[Least(BadPartEntries(EntriesOfTree(data)))].type \notin KnownTypes) =>
        /\ pc = "failed"
        /\ err = "Unknown block type: unknown_type"
        /\ NothingReturned

(***************************************************************************)
(* C13. Deserialization of an entry of unknown type fails with 'Unknown    *)
(* block type' and returns no document, for an entry of a flat document's  *)
(* blocks and for an entry of a part's content.                            *)
(***************************************************************************)
UnknownTypeFailsAsUnknown == UnknownTypeFailsFlat /\ UnknownTypeFailsPart

(***************************************************************************)
(* C14. Deserializing a part whose content, or the content of any part     *)
(* below it, holds an entry of type 'heading' fails, and so does           *)
(* HierarchicalDocument.fromJSON of a document with such a part: no part   *)
(* and no document comes out of it.                                        *)
(***************************************************************************)
HeadingEntries(es) == {i \in 1..Len(es) : es[i].type = "heading"}

HeadingInContentFails ==
    (/\ pc # "json"
     /\ ~IsFlatData(data)
     /\ HeadingEntries(EntriesOfTree(data)) # {}) =>
        /\ pc = "failed"
        /\ err # ""
        /\ Least(BadPartEntries(EntriesOfTree(data))) \in HeadingEntries(EntriesOfTree(data)) =>
              err = "Headings not allowed in DocumentPart content: heading"
        /\ NothingReturned

\* The heading entry sits in a sub-part, below a part with good content.
HeadingInContentFailsWitness ==
    /\ pc = "failed"
    /\ IsHierData(data)
    /\ Len(data.parts) = 1
    /\ Len(data.parts[1].content) = 1
    /\ data.parts[1].content[1].type = "paragraph"
    /\ Len(data.parts[1].subParts) = 1
    /\ Len(data.parts[1].subParts[1].content) = 1
    /\ data.parts[1].subParts[1].content[1].type = "heading"
    /\ err = "Headings not allowed in DocumentPart content: heading"

(***************************************************************************)
(* C20. Flat serialization round trip: PhotoDocument.fromJSON(d.toJSON())  *)
(* has the title, description, metadata, created and modified of d and an  *)
(* equal block sequence: same length and order, each block of the same     *)
(* kind with equal level, spans, items, imageId, caption and alt.          *)
(***************************************************************************)
SameBlock(a, b) ==
    /\ a.type = b.type
    /\ a.type = "heading" => a.level = b.level /\ a.content = b.content
    /\ a.type = "paragraph" => a.content = b.content
    /\ a.type = "list" => a.items = b.items
    /\ a.type = "image" => a.imageId = b.imageId /\ a.caption = b.caption /\ a.alt = b.alt

FlatJsonRoundTrip ==
    pc = "received" =>
        /\ result.title = photoDoc.title
        /\ result.description = photoDoc.description
        /\ result.metadata = photoDoc.metadata
        /\ result.created = photoDoc.created
        /\ result.modified = photoDoc.modified
        /\ Len(result.blocks) = Len(photoDoc.blocks)
        /\ \A i \in 1..Len(photoDoc.blocks) : SameBlock(result.blocks[i], photoDoc.blocks[i])

\* A document with a list read from JSON and an image with alt text added
\* later, read back after the clock has moved past its creation.
FlatJsonRoundTripWitness ==
    /\ pc = "received"
    /\ Len(photoDoc.blocks) = 2
    /\ photoDoc.blocks[1].type = "list"
    /\ photoDoc.blocks[2].type = "image" /\ photoDoc.blocks[2].alt = "alt"
    /\ photoDoc.created = 0 /\ photoDoc.modified = 1 /\ now = 1
    /\ data.created # data.modified

(***************************************************************************)
(* What addBlock and addPart leave alone.                                  *)
(***************************************************************************)
SameProperties(a, b) ==
    /\ a.created = b.created
    /\ a.title = b.title
    /\ a.description = b.description
    /\ a.metadata = b.metadata

(***************************************************************************)
(* C15. As claimed: addBlock(b) leaves blocks as the old list followed by  *)
(* b and sets modified to the current time, addPart(p) does the same for   *)
(* parts; created, title, description and metadata stay; and modified      *)
(* never decreases.                                                        *)
(***************************************************************************)
AppendOnlyStampedMonotone ==
    [][/\ \A block \in JsonBlockInputs :
             AddBlock(block) =>
                 /\ photoDoc'.blocks = photoDoc.blocks \o <<block>>
                 /\ photoDoc'.modified = now'
                 /\ SameProperties(photoDoc', photoDoc)
                 /\ photoDoc'.modified >= photoDoc.modified
       /\ \A part \in Parts :
             AddPart(part) =>
                 /\ hierDoc'.parts = hierDoc.parts \o <<part>>
                 /\ hierDoc'.modified = now'
                 /\ SameProperties(hierDoc', hierDoc)
                 /\ hierDoc'.modified >= hierDoc.modified]_vars

(***************************************************************************)
(* C15, amended.  addBlock(b) leaves blocks as the old list followed by b  *)
(* and sets modified to the current time, addPart(p) does the same for     *)
(* parts; created, title, description and metadata stay; and modified does *)
(* not decrease when it was not later than the clock before the call.      *)
(***************************************************************************)
AppendOnlyStamped ==
    [][/\ \A block \in JsonBlockInputs :
             AddBlock(block) =>
                 /\ photoDoc'.blocks = photoDoc.blocks \o <<block>>
                 /\ photoDoc'.modified = now'
                 /\ SameProperties(photoDoc', photoDoc)
                 /\ photoDoc.modified <= now =>
                       photoDoc'.modified >= photoDoc.modified /\ photoDoc'.modified <= now'
       /\ \A part \in Parts :
             AddPart(part) =>
                 /\ hierDoc'.parts = hierDoc.parts \o <<part>>
                 /\ hierDoc'.modified = now'
                 /\ SameProperties(hierDoc', hierDoc)
                 /\ hierDoc.modified <= now =>
                       hierDoc'.modified >= hierDoc.modified /\ hierDoc'.modified <= now']_vars

\* A part was added to a document that already had one, after the clock
\* had moved.
AppendOnlyStampedWitness ==
    /\ pc = "tree"
    /\ Len(hierDoc.parts) = 2
    /\ hierDoc.created = 0
    /\ hierDoc.modified = 1
    /\ now = 1
    /\ IsPartData(data)

(***************************************************************************)
(* Selections of a sequence, stated by positions: `out` lists, in order,   *)
(* the values f[i] at the positions i in P.                                *)
(***************************************************************************)
ListsPositions(out, f, P) ==
    /\ Len(out) = Cardinality(P)
    /\ \A i \in P : out[Cardinality({j \in P : j <= i})] = f[i]

ImagePositions(blocks) == {i \in 1..Len(blocks) : blocks[i].type = "image"}

\* ids lists the imageId of every image block of blocks, in block order.
IdsInOrder(ids, blocks) ==
    ListsPositions(ids, [i \in 1..Len(blocks) |->
                            IF blocks[i].type = "image" THEN blocks[i].imageId ELSE ""],
                   ImagePositions(blocks))

\* The content of the parts `ids`, one part after the other.
RECURSIVE ContentOf(_, _)
ContentOf(h, ids) ==
    IF ids = <<>> THEN <<>> ELSE h[Head(ids)].content \o ContentOf(h, Tail(ids))

(***************************************************************************)
(* C16. getImageIds returns the imageId of every Image block, duplicates   *)
(* kept: of a flat document in block order ([imgA, imgB, imgA] gives       *)
(* [imgA, imgB, imgA]); of a part and of a hierarchical document in        *)
(* pre-order over the parts, a part's own content before its sub-parts'.   *)
(* Other blocks contribute nothing.                                        *)
(***************************************************************************)
ImageIdsInOrder ==
    /\ pc = "ids" =>
          /\ IdsInOrder(result, photoDoc.blocks)
          /\ photoDoc.blocks = <<Img("imgA"), Img("imgB"), Img("imgA")>> =>
                result = <<"imgA", "imgB", "imgA">>
    /\ \A id \in Parts :
          IdsInOrder(DocumentPart_getImageIds(heap, id),
                     ContentOf(heap, PreOrderWalk(heap, <<id>>, <<>>)))
    /\ pc = "hierIds" =>
          IdsInOrder(result, ContentOf(heap, PreOrderWalk(heap, hierDoc.parts, <<>>)))

\* Two top-level parts: the first holds a sub-part with imgB, the second
\* holds imgA.
ImageIdsInOrderWitness ==
    /\ pc = "hierIds"
    /\ Len(hierDoc.parts) = 2
    /\ heap[1].subParts = <<2>>
    /\ result = <<"imgB", "imgA">>

(***************************************************************************)
(* C17. validateImageIds(validIds) returns the elements of getImageIds()   *)
(* that are not in validIds, in encounter order ([imgA, imgB, imgC] with   *)
(* {imgA} gives [imgB, imgC]); it returns the empty list exactly when      *)
(* every referenced id is in validIds; it changes neither the document nor *)
(* validIds.  For the flat and for the hierarchical document.              *)
(***************************************************************************)
MissingOf(out, ids, validIds) ==
    /\ ListsPositions(out, ids, {i \in 1..Len(ids) : ids[i] \notin validIds})
    /\ out = <<>> <=> \A i \in 1..Len(ids) : ids[i] \in validIds
    /\ (ids = <<"imgA", "imgB", "imgC">> /\ validIds = {"imgA"}) => out = <<"imgB", "imgC">>

MissingImageIds ==
    [][/\ \A validIds \in SUBSET QueryImageIds :
             (pc' = "missing" /\ ValidateImageIds(validIds)) =>
                 /\ MissingOf(result'.missingIds, PhotoDocument_getImageIds(photoDoc), validIds)
                 /\ photoDoc' = photoDoc
                 /\ result'.validIds = validIds
       /\ \A validIds \in SUBSET QueryImageIds :
             (pc' = "hierMissing" /\ HierValidateImageIds(validIds)) =>
                 /\ MissingOf(result'.missingIds,
                              HierarchicalDocument_getImageIds(hierDoc, heap), validIds)
                 /\ hierDoc' = hierDoc /\ heap' = heap
                 /\ result'.validIds = validIds]_vars

MissingImageIdsWitness ==
    /\ pc = "missing"
    /\ PhotoDocument_getImageIds(photoDoc) = <<"imgA", "imgB", "imgC">>
    /\ result = [validIds |-> {"imgA"}, missingIds |-> <<"imgB", "imgC">>]

(***************************************************************************)
(* C18. generateTOC walks the parts in the pre-order of flatten: it has    *)
(* one entry per part of the document, and its i-th entry carries the      *)
(* plain text and the level of the i-th Heading block of                   *)
(* toPhotoDocument().blocks and refers to the part that heading is of.     *)
(***************************************************************************)
RECURSIVE PlainText(_)
PlainText(spans) ==
    IF spans = <<>> THEN ""
    ELSE PlainText(SubSeq(spans, 1, Len(spans) - 1)) \o spans[Len(spans)].text

TocFollowsFlatten ==
    pc = "toc" =>
        LET hs == SelectSeq(toPhotoDocument(hierDoc, heap).blocks, IsHeading)
            walk == PreOrderWalk(heap, hierDoc.parts, <<>>)
        IN  /\ Len(result) = Len(hs)
            /\ Len(result) = Len(walk)
            /\ \A i \in 1..Len(result) :
                  /\ result[i].title = PlainText(hs[i].content)
                  /\ result[i].level = hs[i].level
                  /\ result[i].part = walk[i]
                  /\ heap[result[i].part].heading = hs[i].content
            /\ \A id \in Parts :
                  ~Detached(id) =>
                      Cardinality({i \in 1..Len(result) : result[i].part = id}) = 1

\* A, its sub-part 'Bb' with a two-span heading, and a second top-level part.
TocFollowsFlattenWitness ==
    /\ pc = "toc"
    /\ Len(result) = 3
    /\ result[2].title = "Bb" /\ result[2].level = 2 /\ result[2].part = 2
    /\ result[3].level = 1
    /\ Len(heap[2].content) = 1

(***************************************************************************)
(* C19. Conversion keeps all content: the non-heading blocks of            *)
(* fromPhotoDocument(x).toPhotoDocument() are the non-heading blocks of x  *)
(* in order, and its heading contents are the heading contents of x in     *)
(* order, after one '(Untitled)' heading exactly when x starts with a      *)
(* non-heading block; no block is dropped or duplicated.                   *)
(***************************************************************************)
IsContent(block) == block.type # "heading"

ContentsOf(blocks) == [i \in 1..Len(blocks) |-> blocks[i].content]

ConversionKeepsContent ==
    pc = "flat" =>
        LET x == photoDoc.blocks
            y == result.blocks
            extra == IF x # <<>> /\ x[1].type # "heading"
                     THEN << <<[text |-> "(Untitled)", style |-> "text"]>> >>
                     ELSE <<>>
        IN  /\ SelectSeq(y, IsContent) = SelectSeq(x, IsContent)
            /\ ContentsOf(SelectSeq(y, IsHeading)) = extra \o ContentsOf(SelectSeq(x, IsHeading))
            /\ Len(y) = Len(x) + Len(extra)

\* Content, then a heading with content: four blocks come back for three.
ConversionKeepsContentWitness ==
    /\ pc = "flat"
    /\ Len(photoDoc.blocks) = 3
    /\ photoDoc.blocks[1].type = "image"
    /\ photoDoc.blocks[2].type = "heading" /\ photoDoc.blocks[2].level = 3
    /\ photoDoc.blocks[3].type = "list"
    /\ Len(result.blocks) = 4
    /\ result.blocks[1].content[1].text = "(Untitled)"

(***************************************************************************)
(* Vocabulary of the round trips: a part tree as a value, without the      *)
(* parts' identities and parent pointers.                                  *)
(***************************************************************************)
RECURSIVE TreeOf(_, _)
TreeOf(h, id) ==
    [heading |-> h[id].heading, content |-> h[id].content,
     subParts |-> [i \in 1..Len(h[id].subParts) |-> TreeOf(h, h[id].subParts[i])]]

TreesOf(h, ids) == [i \in 1..Len(ids) |-> TreeOf(h, ids[i])]

\* The derived levels of the parts below `ids`, each sub-part listed under
\* its holder, in pre-order.
LevelsOf(h, ids) ==
    LET walk == PreOrderWalk(h, ids, <<>>)
    IN  [i \in 1..Len(walk) |-> level(h, walk[i])]

(***************************************************************************)
(* C21. Hierarchical serialization round trip: for a document built with   *)
(* addPart, addSubPart and addContent, fromJSON(doc.toJSON()) has the same *)
(* tree (part order, headings, content, nesting), every restored part has  *)
(* the derived level of its original, and the restored document flattens   *)
(* to the same block sequence.                                             *)
(***************************************************************************)
HierJsonRoundTrip ==
    pc = "received" =>
        /\ TreesOf(result.heap, result.doc.parts) = TreesOf(heap, hierDoc.parts)
        /\ LevelsOf(result.heap, result.doc.parts) = LevelsOf(heap, hierDoc.parts)
        /\ flattenAll(result.heap, result.doc.parts) = flattenAll(heap, hierDoc.parts)

(***************************************************************************)
(* C22. toPhotoDocument preserves metadata and timestamps and is read-only *)
(* on its source: the flat document returned has the hierarchical          *)
(* document's title, description, metadata, created and modified, and the  *)
(* call leaves the document's parts, the part tree and the modified date   *)
(* as they were.                                                           *)
(***************************************************************************)
ToPhotoDocumentReadOnly ==
    [][(pc' = "flat" /\ ToPhotoDocument) =>
          /\ result'.title = hierDoc.title
          /\ result'.description = hierDoc.description
          /\ result'.metadata = hierDoc.metadata
          /\ result'.created = hierDoc.created
          /\ result'.modified = hierDoc.modified
          /\ hierDoc'.parts = hierDoc.parts
          /\ hierDoc'.modified = hierDoc.modified
          /\ heap' = heap]_vars

\* A nested tree, last changed after it was created, has been flattened.
ToPhotoDocumentReadOnlyWitness ==
    /\ pc = "flat"
    /\ hierDoc.created = 0
    /\ hierDoc.modified = 1
    /\ result.modified = 1
    /\ result.created = 0
    /\ result.title = "T"
    /\ Len(result.blocks) = 3
    /\ \E id \in Parts : heap[id].subParts # <<>> /\ heap[id].content # <<>>

(***************************************************************************)
(* Vocabulary of the HTML property.                                        *)
(***************************************************************************)
Entity(c) ==
    CASE c = "&" -> <<"&", "amp", ";">>
      [] c = "<" -> <<"&", "lt", ";">>
      [] c = ">" -> <<"&", "gt", ";">>
      [] c = "\"" -> <<"&", "quot", ";">>
      [] OTHER -> <<c>>

RECURSIVE Escaped(_)
Escaped(text) == IF text = <<>> THEN <<>> ELSE Entity(Head(text)) \o Escaped(Tail(text))

Count(s, c) == Cardinality({i \in 1..Len(s) : s[i] = c})

\* Number of tags the style wraps the text in.
TagsOf(style) ==
    CASE style = "bold" -> 2 [] style = "italic" -> 2 [] style = "bold_italic" -> 4 [] OTHER -> 0

RenderedSpan == photoDoc.blocks[1].content[1]

(***************************************************************************)
(* C23. HTML escaping: toHTML replaces each & < > " of the text by its     *)
(* entity, once (an entity is not escaped again), so the output holds no   *)
(* < or > but those of the style's own tags, and no " at all.              *)
(***************************************************************************)
HtmlEscaping ==
    pc = "html" =>
        LET n == TagsOf(RenderedSpan.style) \div 2
            body == SubSeq(result, 3 * n + 1, Len(result) - 3 * n)
        IN  /\ body = Escaped(RenderedSpan.text)
            /\ Count(result, "<") = TagsOf(RenderedSpan.style)
            /\ Count(result, ">") = TagsOf(RenderedSpan.style)
            /\ Count(result, "\"") = 0

\* The script text of the specification, rendered in bold.
HtmlEscapingWitness ==
    /\ pc = "html"
    /\ RenderedSpan.text = ScriptText
    /\ RenderedSpan.style = "bold"
    /\ result = <<"<", "strong", ">", "&", "lt", ";", "script", "&", "gt", ";", "alert(1)",
                  "&", "lt", ";", "/script", "&", "gt", ";", "<", "/strong", ">">>

(***************************************************************************)
(* C24. Parent/child consistency: after any addSubPart calls, every part   *)
(* p of q.subParts has p.parent = q, and no part stands in the subParts of *)
(* two parts or twice in one list.                                         *)
(***************************************************************************)
ParentChildConsistent ==
    /\ \A q \in Parts : \A i \in 1..Len(heap[q].subParts) :
          heap[heap[q].subParts[i]].parent = q
    /\ \A q1 \in Parts, q2 \in Parts :
          \A i \in 1..Len(heap[q1].subParts), j \in 1..Len(heap[q2].subParts) :
              heap[q1].subParts[i] = heap[q2].subParts[j] => (q1 = q2 /\ i = j)

(***************************************************************************)
(* C25. Termination of the tree walks: after any addSubPart and addPart    *)
(* calls, also of a part to itself or to a part below it, reading a part's *)
(* level returns, and so do toFlatBlocks, getImageIds, generateTOC and     *)
(* toJSON: the parent chain and the subParts graph have no cycle.          *)
(***************************************************************************)
TreeWalksTerminate ==
    /\ \A id \in Parts : level(heap, id) # Diverges
    /\ \A id \in Parts : ~Recurs(heap, <<id>>)
    /\ pc # "failed"

(***************************************************************************)
(* C26. fromPhotoDocument carries the source's timestamps over: for every  *)
(* flat document d, also one with blocks, the hierarchical document has    *)
(* d's created and modified dates, title, description and metadata.        *)
(***************************************************************************)
TimestampsCarriedOver ==
    pc = "hier" =>
        /\ hierDoc.title = photoDoc.title
        /\ hierDoc.description = photoDoc.description
        /\ hierDoc.metadata = photoDoc.metadata
        /\ hierDoc.created = photoDoc.created
        /\ hierDoc.modified = photoDoc.modified

(***************************************************************************)
(* Vocabulary of the scan properties.                                      *)
(***************************************************************************)
\* The blocks the scan has been through.
Scanned ==
    IF pc = "scan" THEN SubSeq(photoDoc.blocks, 1, result.next - 1) ELSE photoDoc.blocks

(***************************************************************************)
(* C27. Trees built by fromPhotoDocument never reach the level clamp: the  *)
(* levels on the scan stack rise strictly from the phantom root (level 0,  *)
(* never popped) to the top, so every part has at most 5 ancestors, and    *)
(* each part's derived level is at most the level of the heading block it  *)
(* was made from (1 for the implicit part).                                *)
(***************************************************************************)
ScanStackRises ==
    /\ pc = "scan" =>
          /\ result.stack[1] = [part |-> PhantomRoot, level |-> 0]
          /\ \A i \in 1..(Len(result.stack) - 1) :
                result.stack[i].level < result.stack[i + 1].level
    /\ pc \in {"scan", "hier"} =>
          /\ \A id \in Parts : Cardinality(Ancestors(heap, id)) <= 5
          /\ \A i \in HeadingIdx(Scanned) :
                level(heap, PartOfHeading(Scanned, i)) <= Scanned[i].level
          /\ HasImplicit(Scanned) => level(heap, 1) <= 1

\* The scan has made an implicit part and six nested parts, has come back to
\* level 1, and has just made a part that lies higher than its heading says.
ScanStackRisesWitness ==
    /\ pc = "scan"
    /\ Len(result.stack) = 3
    /\ result.stack[3].level = 3
    /\ \E id \in Parts : Cardinality(Ancestors(heap, id)) = 5
    /\ HasImplicit(Scanned)
    /\ \E i \in HeadingIdx(Scanned) :
          level(heap, PartOfHeading(Scanned, i)) < Scanned[i].level

(***************************************************************************)
(* C29. Normalization is idempotent: with N(x) the blocks of               *)
(* fromPhotoDocument(x).toPhotoDocument(), N(N(x)) = N(x) block for block: *)
(* the second pass changes no heading level, adds no '(Untitled)' heading  *)
(* and moves no block.                                                     *)
(***************************************************************************)
NormalizationIdempotent ==
    [][(pc = "hier2" /\ Reflatten) => result'.blocks = result.blocks]_vars

\* The first pass put an '(Untitled)' heading in front and lifted a heading
\* that skipped a level; the second pass has run.
NormalizationIdempotentWitness ==
    /\ pc = "flat2"
    /\ HasImplicit(photoDoc.blocks)
    /\ Len(result.blocks) = Len(photoDoc.blocks) + 1
    /\ result.blocks[1] = H(1, "(Untitled)")
    /\ Cardinality({i \in 1..Len(result.blocks) : result.blocks[i] = H(1, "(Untitled)")}) = 1
    /\ \E i \in HeadingIdx(photoDoc.blocks) : result.blocks[i + 1].level < photoDoc.blocks[i].level
    /\ \E i \in 2..Len(result.blocks) : result.blocks[i].type = "image"

\* The nesting depth of the document's part tree.
DepthOf(h, ids) ==
    LET walk == PreOrderWalk(h, ids, <<>>)
    IN  IF walk = <<>> THEN 0
        ELSE Max({1 + Cardinality(Ancestors(h, walk[i])) : i \in 1..Len(walk)})

(***************************************************************************)
(* C28. Tree to flat to tree: for a hierarchical document T whose parts    *)
(* are nested at most 6 deep, every part added once,                       *)
(* fromPhotoDocument(T.toPhotoDocument()) has the same tree as T: the same *)
(* top-level parts in the same order, the same headings, the same content  *)
(* per part and the same nesting of sub-parts.                             *)
(***************************************************************************)
TreeRoundTrip ==
    (pc = "rebuilt" /\ DepthOf(heap, hierDoc.parts) <= 6) =>
        TreesOf(result.heap, result.doc.parts) = TreesOf(heap, hierDoc.parts)

\* A document of two top-level parts, the first nested six deep with a
\* content block somewhere below, has been flattened and rebuilt.
TreeRoundTripWitness ==
    /\ pc = "rebuilt"
    /\ DepthOf(heap, hierDoc.parts) = 6
    /\ Len(hierDoc.parts) = 2
    /\ \E id \in Parts : heap[id].parent # NoParent /\ heap[id].content # <<>>
    /\ Len(result.heap) = 7

(***************************************************************************)
(* C30. Image references agree across the two representations: a          *)
(* hierarchical document and its toPhotoDocument(), and a flat document    *)
(* and its fromPhotoDocument(), have the same getImageIds (same ids, order *)
(* and repetitions), hence the same validateImageIds for every known set.  *)
(***************************************************************************)
ImageIdsAgree ==
    /\ pc = "flat" =>
          /\ PhotoDocument_getImageIds(result) = HierarchicalDocument_getImageIds(hierDoc, heap)
          /\ \A validIds \in SUBSET QueryImageIds :
                PhotoDocument_validateImageIds(result, validIds)
                    = HierarchicalDocument_validateImageIds(hierDoc, heap, validIds)
    /\ pc = "hier" =>
          /\ HierarchicalDocument_getImageIds(hierDoc, heap) = PhotoDocument_getImageIds(photoDoc)
          /\ \A validIds \in SUBSET QueryImageIds :
                HierarchicalDocument_validateImageIds(hierDoc, heap, validIds)
                    = PhotoDocument_validateImageIds(photoDoc, validIds)

\* A tree made through the API, with an image in a top-level part, the same
\* image below it and another one after it, has been flattened.
ImageIdsAgreeWitness ==
    /\ pc = "flat"
    /\ photoDoc.blocks = <<>>
    /\ PhotoDocument_getImageIds(result) = <<"imgA", "imgA", "imgB">>
    /\ \E id \in Parts :
          /\ heap[id].subParts # <<>>
          /\ heap[id].content = <<Img("imgA")>>
    /\ PhotoDocument_validateImageIds(result, {"imgB"}) = <<"imgA", "imgA">>

====
